---- MODULE Spec2Model ----
(***************************************************************************)
(* The LP DAAC reconciliation "response" handler                           *)
(* (src/src/hls_lpdaac_reconciliation/response), as a state machine.       *)
(*                                                                         *)
(* A Python str is a sequence of one-character strings, so that the        *)
(* parsing functions (regular expressions, split, substring tests) are     *)
(* computed the way the code computes them.                                *)
(***************************************************************************)
EXTENDS Integers, Sequences, FiniteSets, TLC

\* ------------------------------------------------------------------ strings

Digit == {"0", "1", "2", "3", "4", "5", "6", "7", "8", "9"}

\* Python's \s, restricted to the whitespace the inputs use.
WS == {" ", "\n", "\t"}

NL == "\n"

\* The characters in code point order: Python compares str by code point.
ASCII ==
  <<"\t", "\n", " ", "!", "#", "$", "%", "&", "'", "(", ")", "*",
     "+", ",", "-", ".", "/", "0", "1", "2", "3", "4", "5", "6",
     "7", "8", "9", ":", ";", "<", "=", ">", "?", "@", "A", "B",
     "C", "D", "E", "F", "G", "H", "I", "J", "K", "L", "M", "N",
     "O", "P", "Q", "R", "S", "T", "U", "V", "W", "X", "Y", "Z",
     "[", "]", "^", "_", "a", "b", "c", "d", "e", "f", "g", "h",
     "i", "j", "k", "l", "m", "n", "o", "p", "q", "r", "s", "t",
     "u", "v", "w", "x", "y", "z", "{", "|", "}", "~">>

Ord(c) == CHOOSE i \in 1..Len(ASCII) : ASCII[i] = c

Range(s) == {s[i] : i \in 1..Len(s)}

Max(S) == CHOOSE x \in S : \A y \in S : y <= x

Min(S) == CHOOSE x \in S : \A y \in S : x <= y

\* A function's outcome: a returned value, or the exception it raised.
Return(v) == [ok |-> TRUE, val |-> v]

Raise(e) == [ok |-> FALSE, val |-> e]

\* s[i-1:j]: the slice from index i to index j, cut to the indices s has.
Slice(s, i, j) ==
  LET lo == IF i < 1 THEN 1 ELSE i
      hi == IF j > Len(s) THEN Len(s) ELSE j
  IN  IF lo > hi THEN <<>> ELSE SubSeq(s, lo, hi)

\* `sub in s`
Contains(sub, s) ==
  \E i \in 0..(Len(s) - Len(sub)) : SubSeq(s, i + 1, i + Len(sub)) = sub

\* s.find(sub) + 1: the first index at which sub occurs in s, 0 when it does not.
Find(sub, s) ==
  LET at == {i \in 1..(Len(s) - Len(sub) + 1) : SubSeq(s, i, i + Len(sub) - 1) = sub}
  IN  IF at = {} THEN 0 ELSE Min(at)

\* s.split(sep) for a one-character sep.
RECURSIVE Split(_, _)
Split(s, sep) ==
  LET i == Find(<<sep>>, s)
  IN  IF i = 0 THEN <<s>>
      ELSE <<SubSeq(s, 1, i - 1)>> \o Split(SubSeq(s, i + 1, Len(s)), sep)

\* s.split(sep, 1)
SplitOnce(s, sep) ==
  LET i == Find(sep, s)
  IN  IF i = 0 THEN <<s>>
      ELSE <<SubSeq(s, 1, i - 1), SubSeq(s, i + Len(sep), Len(s))>>

\* a < b on str
StrLess(a, b) ==
  LET n == IF Len(a) < Len(b) THEN Len(a) ELSE Len(b)
      d == {i \in 1..n : a[i] # b[i]}
  IN  IF d = {} THEN Len(a) < Len(b) ELSE Ord(a[Min(d)]) < Ord(b[Min(d)])

\* A sort in descending order.
RECURSIVE sorted_descending(_)
sorted_descending(S) ==
  IF S = {} THEN <<>>
  ELSE LET m == CHOOSE x \in S : \A y \in S \ {x} : StrLess(y, x)
       IN  <<m>> \o sorted_descending(S \ {m})

\* sorted(S) for a set of str
RECURSIVE sorted(_)
sorted(S) ==
  IF S = {} THEN <<>>
  ELSE LET m == CHOOSE x \in S : \A y \in S \ {x} : StrLess(x, y)
       IN  <<m>> \o sorted(S \ {m})

\* ------------------------------------------- response/__init__.py (pure)

\* re.match(r"^(?P<granule_id>.+\.v\d(?:\.\d)*)", filename): the end index of
\* the match, 0 when there is none.  The greedy .+ makes the match start its
\* version token at the LAST ".v<digit>" that has a character before it; the
\* greedy (?:\.\d)* then takes every following ".<digit>".
GRANULE_ID_PATTERN(filename) ==
  LET starts == {i \in 2..(Len(filename) - 2) :
                   /\ filename[i] = "."
                   /\ filename[i + 1] = "v"
                   /\ filename[i + 2] \in Digit
                   /\ \A j \in 1..(i - 1) : filename[j] # NL}
  IN  IF starts = {} THEN 0
      ELSE LET e == Max(starts) + 2
               minors == {k \in 0..((Len(filename) - e) \div 2) :
                            \A m \in 1..k : /\ filename[e + 2 * m - 1] = "."
                                            /\ filename[e + 2 * m] \in Digit}
           IN  e + 2 * Max(minors)

granule_id_for_file(filename) ==
  LET m == GRANULE_ID_PATTERN(filename)
  IN  IF m = 0 THEN Raise("ValueError") ELSE Return(SubSeq(filename, 1, m))

\* The number of whitespace characters of s from index i on.
WsRun(s, i) ==
  IF i > Len(s) THEN 0
  ELSE Max({n \in 0..(Len(s) - i + 1) : \A m \in 0..(n - 1) : s[i + m] \in WS})

\* The last index of the line of s that index p starts (p - 1 for an empty one).
LineEnd(s, p) ==
  Min({e \in p..Len(s) : s[e] = NL} \cup {Len(s) + 1}) - 1

\* re.search(r"Report\s+available\s+at\s+(?P<loc>.+)[.]", message, re.MULTILINE)
\* tried at index i: <<first, last>> indices of loc, or <<>> when the pattern
\* does not match there.  Each \s+ is greedy; the last one gives whitespace back
\* to loc only when no match exists otherwise; .+ is greedy and stops at the
\* last "." of its line.
ReportLocationAt(message, i) ==
  LET kw1 == <<"R", "e", "p", "o", "r", "t">>
      kw2 == <<"a", "v", "a", "i", "l", "a", "b", "l", "e">>
      kw3 == <<"a", "t">>
      a  == i + Len(kw1)
      w1 == WsRun(message, a)
      b  == a + w1
      c  == b + Len(kw2)
      w2 == WsRun(message, c)
      d  == c + w2
      e  == d + Len(kw3)
      w3 == WsRun(message, e)
      locs == {jq \in (1..w3) \X (1..Len(message)) :
                 LET p == e + jq[1]
                     q == jq[2]
                 IN  /\ p < q
                     /\ message[q] = "."
                     /\ q <= LineEnd(message, p)}
  IN  IF /\ Slice(message, i, a - 1) = kw1
         /\ w1 >= 1
         /\ Slice(message, b, c - 1) = kw2
         /\ w2 >= 1
         /\ Slice(message, d, e - 1) = kw3
         /\ locs # {}
      THEN LET j == Max({jq[1] : jq \in locs})
               q == Max({jq[2] : jq \in {x \in locs : x[1] = j}})
           IN  <<e + j, q - 1>>
      ELSE <<>>

\* A search that splits the location on its last "/".
extract_report_location_last_slash(message) ==
  LET found == {i \in 1..Len(message) : ReportLocationAt(message, i) # <<>>}
  IN  IF found = {} THEN Raise("ValueError")
      ELSE LET m == ReportLocationAt(message, Min(found))
               location == SubSeq(message, m[1], m[2])
               slashes == {i \in 1..Len(location) : location[i] = "/"}
           IN  IF slashes = {} THEN Raise("ValueError")
               ELSE Return([bucket |-> SubSeq(location, 1, Max(slashes) - 1),
                            key |-> SubSeq(location, Max(slashes) + 1, Len(location))])

extract_report_location(message) ==
  LET found == {i \in 1..Len(message) : ReportLocationAt(message, i) # <<>>}
  IN  IF found = {} THEN Raise("ValueError")
      ELSE LET m == ReportLocationAt(message, Min(found))
               location == SubSeq(message, m[1], m[2])
               parts == SplitOnce(location, <<"/">>)
           IN  IF Len(parts) # 2 THEN Raise("ValueError")
               ELSE Return([bucket |-> parts[1], key |-> parts[2]])

\* A key without the "_VI" of the vegetation index products.
notification_trigger_key_no_vi(granule_id) ==
  LET fields == Split(granule_id, ".")
  IN  IF Len(fields) < 4 THEN Raise("ValueError")
      ELSE LET dt == Split(fields[4], "T")
           IN  IF Len(dt) # 2 THEN Raise("ValueError")
               ELSE Return(fields[2]
                           \o <<"/", "d", "a", "t", "a", "/">> \o dt[1] \o <<"/">>
                           \o granule_id \o <<"/">> \o granule_id \o <<".", "j", "s", "o", "n">>)

notification_trigger_key(granule_id) ==
  LET fields == Split(granule_id, ".")
  IN  IF Len(fields) < 4 THEN Raise("ValueError")
      ELSE LET prefix == fields[1]
               instrument == fields[2]
               datetime == fields[4]
               vi == Tail(Split(prefix, "-"))
               dt == Split(datetime, "T")
           IN  IF Len(dt) # 2 THEN Raise("ValueError")
               ELSE Return(instrument
                           \o (IF vi # <<>> THEN <<"_", "V", "I">> ELSE <<>>)
                           \o <<"/", "d", "a", "t", "a", "/">> \o dt[1] \o <<"/">>
                           \o granule_id \o <<"/">> \o granule_id \o <<".", "j", "s", "o", "n">>)

\* A decoding that splits on the first underscore.
decode_collection_id_first_underscore(collection_id) ==
  LET parts == SplitOnce(collection_id, <<"_">>)
  IN  IF Len(parts) # 2 THEN Raise("MalformedCollectionId")
      ELSE Return([short_name |-> parts[1], version |-> parts[2]])

\* decode_collection_id is imported by response/index.py but its definition is
\* not in the sources; it is modelled on the specification: split on the first
\* "___", an error when the separator is absent.
decode_collection_id(collection_id) ==
  LET parts == SplitOnce(collection_id, <<"_", "_", "_">>)
  IN  IF Len(parts) # 2 THEN Raise("MalformedCollectionId")
      ELSE Return([short_name |-> parts[1], version |-> parts[2]])

\* An assignment that moves a key already present to the end.
DictSet_reappend(d, key, value) ==
  Append(SelectSeq(d, LAMBDA e : e.key # key), [key |-> key, value |-> value])

\* The dict comprehension's assignment d[key] = value: a key already present
\* keeps its position and takes the new value.
DictSet(d, key, value) ==
  IF \E i \in 1..Len(d) : d[i].key = key
  THEN [i \in 1..Len(d) |-> IF d[i].key = key THEN [key |-> key, value |-> value]
                            ELSE d[i]]
  ELSE Append(d, [key |-> key, value |-> value])

\* A report is a sequence of sub-reports; a sub-report is the sequence of the
\* items (collection id, filenames of its "report" mapping) of its mapping.
RECURSIVE ReportItems(_)
ReportItems(report) ==
  IF report = <<>> THEN <<>> ELSE Head(report) \o ReportItems(Tail(report))

\* A grouping that leaves out the collections without files.
RECURSIVE GroupItems_nonempty(_, _)
GroupItems_nonempty(d, items) ==
  IF items = <<>> THEN d
  ELSE LET it == Head(items)
           ids == {granule_id_for_file(it.files[k]).val : k \in 1..Len(it.files)}
       IN  GroupItems_nonempty(
             IF it.files = <<>> THEN d
             ELSE DictSet(d, it.collection_id,
                          [n_files |-> Len(it.files), granule_ids |-> sorted(ids)]),
             Tail(items))

RECURSIVE GroupItems(_, _)
GroupItems(d, items) ==
  IF items = <<>> THEN d
  ELSE LET it == Head(items)
           ids == {granule_id_for_file(it.files[k]).val : k \in 1..Len(it.files)}
       IN  GroupItems(DictSet(d, it.collection_id,
                              [n_files |-> Len(it.files), granule_ids |-> sorted(ids)]),
                      Tail(items))

\* A grouping that passes over the filenames without a version token.
group_granule_ids_lenient(report) ==
  LET items == ReportItems(report)
      versioned(f) == GRANULE_ID_PATTERN(f) # 0
  IN  Return(GroupItems(<<>>, [i \in 1..Len(items) |->
                                 [collection_id |-> items[i].collection_id,
                                  files |-> SelectSeq(items[i].files, versioned)]]))

group_granule_ids(report) ==
  LET items == ReportItems(report)
  IN  IF \E i \in 1..Len(items) : \E k \in 1..Len(items[i].files) :
           ~granule_id_for_file(items[i].files[k]).ok
      THEN Raise("ValueError")
      ELSE Return(GroupItems(<<>>, items))

\* ------------------------------------------------------------------ inputs

\* Subjects of the notification: no "Ok", "Ok" at the end, "Ok" elsewhere.
SUBJECT_DISCREPANCIES == <<"r", "p", "t">>

SUBJECT_OK == <<"r", "p", "t", " ", "O", "k">>

SUBJECT_OK_INSIDE == <<"O", "k", " ", "r", "p", "t">>

Subjects == {SUBJECT_DISCREPANCIES, SUBJECT_OK, SUBJECT_OK_INSIDE}

\* Messages: a report of forward processing, one of historical processing (the
\* sentence on a line of its own), no sentence, a location without a key.
MESSAGE_FORWARD == <<"R", "e", "p", "o", "r", "t", " ", "a", "v", "a", "i", "l", "a", "b", "l", "e", " ", "a", "t", " ", "l", "p", "/", "r", "/", "f", ".", "j", "s", "o", "n", ".">>

MESSAGE_HISTORICAL == <<"H", "i", "\n", "R", "e", "p", "o", "r", "t", " ", " ", "a", "v", "a", "i", "l", "a", "b", "l", "e", " ", "a", "t", "\n", "l", "p", "/", "r", "/", "h", "i", "s", "t", "o", "r", "i", "c", "a", "l", ".", "j", "s", "o", "n", ".", "\n", "B", "y", "e">>

MESSAGE_TEST == <<"T", "e", "s", "t", " ", "m", "e", "s", "s", "a", "g", "e">>

MESSAGE_NO_KEY == <<"R", "e", "p", "o", "r", "t", " ", "a", "v", "a", "i", "l", "a", "b", "l", "e", " ", "a", "t", " ", "l", "p", ".">>

Messages == {MESSAGE_FORWARD, MESSAGE_HISTORICAL, MESSAGE_TEST, MESSAGE_NO_KEY}

REPORT_BUCKET == <<"l", "p">>

ReportKeys == {<<"r", "/", "f", ".", "j", "s", "o", "n">>, <<"r", "/", "h", "i", "s", "t", "o", "r", "i", "c", "a", "l", ".", "j", "s", "o", "n">>}

\* Filenames of the reports: two files of granule A, one of granules B and C,
\* one whose granule id has a malformed datetime field, one whose granule id
\* has 3 fields, one without a version token.
FILE_A_TIF == <<"H", "L", "S", ".", "S", "3", "0", ".", "T", "1", ".", "2", "0", "2", "4", "2", "3", "7", "T", "1", "9", ".", "v", "2", ".", "0", ".", "t", "i", "f">>

FILE_A_STAC == <<"H", "L", "S", ".", "S", "3", "0", ".", "T", "1", ".", "2", "0", "2", "4", "2", "3", "7", "T", "1", "9", ".", "v", "2", ".", "0", "_", "s", "t", "a", "c", ".", "j", "s", "o", "n">>

FILE_B_TIF == <<"H", "L", "S", ".", "S", "3", "0", ".", "T", "2", ".", "2", "0", "2", "4", "2", "3", "8", "T", "0", "7", ".", "v", "2", ".", "0", ".", "t", "i", "f">>

FILE_C_TIF == <<"H", "L", "S", ".", "L", "3", "0", ".", "T", "3", ".", "2", "0", "2", "4", "2", "3", "9", "T", "1", "1", ".", "v", "2", ".", "0", ".", "t", "i", "f">>

FILE_BAD_DATETIME == <<"H", "L", "S", ".", "L", "3", "0", ".", "v", "2", ".", "0", ".", "t", "i", "f">>

FILE_THREE_FIELDS == <<"H", "L", "S", ".", "v", "2", ".", "0", ".", "t", "i", "f">>

FILE_NO_VERSION == <<"H", "L", "S", ".", "S", "3", "0", ".", "T", "1", ".", "2", "0", "2", "4", "2", "3", "7", "T", "1", "9", ".", "t", "i", "f">>

GRANULE_A == <<"H", "L", "S", ".", "S", "3", "0", ".", "T", "1", ".", "2", "0", "2", "4", "2", "3", "7", "T", "1", "9", ".", "v", "2", ".", "0">>

GRANULE_B == <<"H", "L", "S", ".", "S", "3", "0", ".", "T", "2", ".", "2", "0", "2", "4", "2", "3", "8", "T", "0", "7", ".", "v", "2", ".", "0">>

GRANULE_C == <<"H", "L", "S", ".", "L", "3", "0", ".", "T", "3", ".", "2", "0", "2", "4", "2", "3", "9", "T", "1", "1", ".", "v", "2", ".", "0">>

HLSS30 == <<"H", "L", "S", "S", "3", "0", "_", "_", "_", "2", ".", "0">>

HLSL30 == <<"H", "L", "S", "L", "3", "0", "_", "_", "_", "2", ".", "0">>

\* A collection id with an underscore in its name and one in its version.
HLSS30_VI == <<"H", "L", "S", "S", "3", "0", "_", "V", "I", "_", "_", "_", "2", "_", "0">>

Item(collection_id, files) == [collection_id |-> collection_id, files |-> files]

\* The reports: the shape of the test fixture (an empty collection, then one
\* with two granules in three files); two collections with granules; a
\* malformed granule id sorted first, and one sorted last; a filename without
\* a version token in the second collection; a collection id in two
\* sub-reports; two collections in one sub-report; a collection id with
\* underscores in name and version.
Reports ==
  { << <<Item(HLSL30, <<>>)>>, <<Item(HLSS30, <<FILE_B_TIF, FILE_A_TIF, FILE_A_STAC>>)>> >>,
    << <<Item(HLSS30, <<FILE_A_TIF, FILE_B_TIF>>)>>, <<Item(HLSL30, <<FILE_C_TIF>>)>> >>,
    << <<Item(HLSS30, <<FILE_A_TIF, FILE_BAD_DATETIME>>)>> >>,
    << <<Item(HLSS30, <<FILE_THREE_FIELDS, FILE_A_TIF>>)>> >>,
    << <<Item(HLSS30, <<FILE_A_TIF>>)>>, <<Item(HLSL30, <<FILE_NO_VERSION>>)>> >>,
    << <<Item(HLSS30, <<FILE_A_TIF>>)>>, <<Item(HLSS30, <<FILE_B_TIF>>)>> >>,
    << <<Item(HLSS30, <<FILE_B_TIF>>), Item(HLSL30, <<FILE_C_TIF>>)>> >>,
    << <<Item(HLSS30_VI, <<FILE_B_TIF>>)>> >> }

\* The trigger objects the data buckets may hold: those of granules A and B
\* (granule C has none in either bucket).
TRIGGER_A == <<"S", "3", "0", "/", "d", "a", "t", "a", "/", "2", "0", "2", "4", "2", "3", "7", "/", "H", "L", "S", ".", "S", "3", "0", ".", "T", "1", ".", "2", "0", "2", "4", "2", "3", "7", "T", "1", "9", ".", "v", "2", ".", "0", "/", "H", "L", "S", ".", "S", "3", "0", ".", "T", "1", ".", "2", "0", "2", "4", "2", "3", "7", "T", "1", "9", ".", "v", "2", ".", "0", ".", "j", "s", "o", "n">>

TRIGGER_B == <<"S", "3", "0", "/", "d", "a", "t", "a", "/", "2", "0", "2", "4", "2", "3", "8", "/", "H", "L", "S", ".", "S", "3", "0", ".", "T", "2", ".", "2", "0", "2", "4", "2", "3", "8", "T", "0", "7", ".", "v", "2", ".", "0", "/", "H", "L", "S", ".", "S", "3", "0", ".", "T", "2", ".", "2", "0", "2", "4", "2", "3", "8", "T", "0", "7", ".", "v", "2", ".", "0", ".", "j", "s", "o", "n">>

TriggerKeys == {TRIGGER_A, TRIGGER_B}

HLS_FORWARD_BUCKET == "forward"

HLS_HISTORICAL_BUCKET == "historical"

DataBuckets == {HLS_FORWARD_BUCKET, HLS_HISTORICAL_BUCKET}

\* The granules the CMR may hold.
CmrGranules ==
  { [short_name |-> <<"H", "L", "S", "S", "3", "0">>, version |-> <<"2", ".", "0">>, granule_id |-> GRANULE_A],
    [short_name |-> <<"H", "L", "S", "S", "3", "0">>, version |-> <<"2", ".", "0">>, granule_id |-> GRANULE_B] }

\* Changes made to the data buckets from outside the handler, at most.
MaxEnvSteps == 1

\* Invocations of the handler with the same notification, at most.
MaxRuns == 2

SKIPPED == "skipped"

TRIGGERED == "triggered"

MISSING == "missing"

Status == {SKIPPED, TRIGGERED, MISSING}

\* ------------------------------------------------------------------- state

VARIABLES
  subject,            \* event["Records"][0]["Sns"]["Subject"]
  message,            \* event["Records"][0]["Sns"]["Message"]
  stored_report,      \* the report the reports bucket holds under ReportKeys
  s3,                 \* data bucket -> (key -> object)
  head_errors,        \* <<bucket, key>> for which head_object raises a
                      \* ClientError other than "not found" (access denied)
  cmr,                \* the granules the CMR has metadata for
  env_steps,          \* outside changes made so far
  pc,                 \* where the handler is
  data_bucket_name,   \* handler: the bucket of the trigger objects
  collections,        \* process_report: the items of group_granule_ids left
  collection_id,      \* process_report: the collection being processed
  short_name,         \* process_report: decoded from collection_id
  version,            \* process_report: decoded from collection_id
  summary,            \* process_report: granule_ids_per_status_per_collection
  granule_ids,        \* process_collection: the granule ids left to reduce
  acc,                \* process_collection: the accumulator of reduce
  key,                \* process_granule: the trigger object key
  result,             \* what the handler returned
  error,              \* the exception the handler raised
  calls,              \* the requests this invocation made, in order
  returned,           \* what process_granule returned, call by call
  run,                \* the number of this invocation
  run_env,            \* env_steps when this invocation started
  previous,           \* the previous invocation: its result and its run_env
  fn,                 \* functions: the function of response/__init__.py applied
  arg,                \* functions: its argument, by its parts
  fpc,                \* functions: before the call or after its return
  out,                \* functions: what it returned or raised
  gpc,                \* generate_report: where the run is
  submitted,          \* start_query_execution requests made so far
  attempt,            \* _wait_query_execution: attempt
  polls,              \* get_query_execution requests made so far
  query_state,        \* the state the last get_query_execution returned
  reason,             \* the StateChangeReason it returned with the state
  gerror,             \* the exception generate_report raised
  pages,              \* the pages of get_query_results, rows by name
  fetched,            \* _fetch_results: the number of pages fetched
  skipped_header,     \* _fetch_results: skipped_header
  csvfile,            \* write_results_to_s3: the rows written to the CSV file
  i_row,              \* write_results_to_s3: i (the index enumerate gave last)
  uploads,            \* the files uploaded to the report destination
  inventory,          \* the records of the S3 inventory table
  runs,               \* the invocations of the report handler, in order
  reports,            \* the objects of the inventory reports bucket, by key
  events,             \* the object-created events not yet delivered to the request handler
  published,          \* the messages published to the LP DAAC request topic
  requests,           \* the invocations of the request handler, in order
  puts                \* the objects put into the reports bucket by others

eventVars == <<subject, message, stored_report>>

envVars == <<s3, head_errors, cmr, env_steps>>

reportVars == <<collections, collection_id, short_name, version, summary>>

granuleVars == <<granule_ids, acc, key>>

runVars == <<run, run_env, previous>>

responseVars == <<eventVars, envVars, pc, data_bucket_name, reportVars, granuleVars,
                  result, error, calls, returned, runVars>>

fnVars == <<fn, fpc, arg, out>>

queryVars == <<gpc, submitted, attempt, polls, query_state, reason, gerror>>

resultVars == <<pages, fetched, skipped_header, csvfile, i_row, uploads>>

genVars == <<queryVars, resultVars>>

pipelineVars == <<inventory, runs, reports, events, published, requests, puts>>

vars == <<responseVars, fnVars, genVars, pipelineVars>>

\* The value of a local that is not bound.
None == "None"

\* A mapping with no key: {}.
EmptyMapping == [k \in {} |-> None]

\* An object as the fixtures put it.
NewObject(bucket, k) ==
  [body |-> <<"content of", bucket, k>>, metadata |-> "as written", modified |-> 0]

\* No function of response/__init__.py is being applied on its own.
FunctionsIdle ==
  /\ fn = None
  /\ fpc = None
  /\ arg = None
  /\ out = None

\* No report is being generated.
GenerateReportIdle ==
  /\ gpc = None
  /\ submitted = 0
  /\ attempt = 0
  /\ polls = 0
  /\ query_state = None
  /\ reason = None
  /\ gerror = None
  /\ pages = <<>>
  /\ fetched = 0
  /\ skipped_header = FALSE
  /\ csvfile = <<>>
  /\ i_row = 0
  /\ uploads = <<>>

\* The response handler is not invoked.
PipelineIdle ==
  /\ inventory = {}
  /\ runs = <<>>
  /\ reports = EmptyMapping
  /\ events = <<>>
  /\ published = <<>>
  /\ requests = <<>>
  /\ puts = 0

ResponseIdle ==
  /\ subject = None
  /\ message = None
  /\ stored_report = None
  /\ s3 = EmptyMapping
  /\ head_errors = {}
  /\ cmr = {}
  /\ env_steps = 0
  /\ pc = None
  /\ data_bucket_name = None
  /\ collections = <<>>
  /\ collection_id = None
  /\ short_name = None
  /\ version = None
  /\ summary = EmptyMapping
  /\ granule_ids = <<>>
  /\ acc = EmptyMapping
  /\ key = None
  /\ result = None
  /\ error = None
  /\ calls = <<>>
  /\ returned = <<>>
  /\ run = 0
  /\ run_env = 0
  /\ previous = None

Init ==
  /\ subject \in Subjects
  /\ message \in Messages
  /\ stored_report \in Reports
  /\ \E present \in SUBSET TriggerKeys :
       s3 = [b \in DataBuckets |->
               LET keys == IF b = HLS_FORWARD_BUCKET THEN present
                           ELSE TriggerKeys \ present
               IN  [k \in keys |-> NewObject(b, k)]]
  /\ head_errors = {}
  /\ cmr \in SUBSET CmrGranules
  /\ env_steps = 0
  /\ pc = "handler"
  /\ data_bucket_name = None
  /\ collections = <<>>
  /\ collection_id = None
  /\ short_name = None
  /\ version = None
  /\ summary = EmptyMapping
  /\ granule_ids = <<>>
  /\ acc = EmptyMapping
  /\ key = None
  /\ result = None
  /\ error = None
  /\ calls = <<>>
  /\ returned = <<>>
  /\ run = 1
  /\ run_env = 0
  /\ previous = None
  /\ FunctionsIdle
  /\ GenerateReportIdle
  /\ PipelineIdle

\* ------------------------------------------------- response/index.py

\* A check of the subject for "Ok" at its end only.
no_discrepancies_suffix(subj) ==
  Len(subj) >= 2 /\ SubSeq(subj, Len(subj) - 1, Len(subj)) = <<"O", "k">>

\* subject and "Ok" in subject
no_discrepancies(subj) == subj # <<>> /\ Contains(<<"O", "k">>, subj)

\* A choice of the data bucket that ignores the key of the report.
select_data_bucket_forward(report_key) == HLS_FORWARD_BUCKET

\* The data bucket of a report: the historical bucket when the key of the
\* report contains "historical", the forward bucket otherwise.
select_data_bucket(report_key) ==
  IF Contains(<<"h", "i", "s", "t", "o", "r", "i", "c", "a", "l">>, report_key) THEN HLS_HISTORICAL_BUCKET
  ELSE HLS_FORWARD_BUCKET

\* s3_resource.Object(bucket_name, key).get(), parsed.
read_report(bucket_name, report_key) ==
  IF bucket_name = REPORT_BUCKET /\ report_key \in ReportKeys
  THEN Return(stored_report)
  ELSE Raise("NoSuchKey")

\* The handler raises: nothing is returned.
Raised(e) ==
  /\ pc' = "raised"
  /\ error' = e

\* handler, up to its call of process_report (the grouping of the report, which
\* process_report evaluates before its loop starts, included).
handler ==
  /\ pc = "handler"
  /\ IF no_discrepancies(subject)
     THEN /\ pc' = "done"
          /\ result' = EmptyMapping
          /\ UNCHANGED <<error, calls, data_bucket_name, collections>>
     ELSE \E loc \in {extract_report_location(message)} :
              IF ~loc.ok
              THEN /\ Raised(loc.val)
                   /\ UNCHANGED <<result, calls, data_bucket_name, collections>>
              ELSE \E report \in {read_report(loc.val.bucket, loc.val.key)} :
                   \E groups \in {IF report.ok THEN group_granule_ids(report.val)
                                   ELSE report} :
                       /\ calls' = Append(calls, [op |-> "get_object",
                                                   bucket |-> loc.val.bucket,
                                                   key |-> loc.val.key])
                       /\ IF ~report.ok
                          THEN /\ Raised(report.val)
                               /\ UNCHANGED <<result, data_bucket_name, collections>>
                          ELSE /\ data_bucket_name' = select_data_bucket(loc.val.key)
                               /\ IF ~groups.ok
                                  THEN /\ Raised(groups.val)
                                       /\ UNCHANGED <<result, collections>>
                                  ELSE /\ collections' = groups.val
                                       /\ pc' = "process_report"
                                       /\ UNCHANGED <<result, error>>
  /\ UNCHANGED <<eventVars, envVars, collection_id, short_name, version, summary,
                 granuleVars, returned, runVars>>
  /\ UNCHANGED <<fnVars, genVars, pipelineVars>>

\* process_report: the head of its loop, or its return.
process_report ==
  /\ pc = "process_report"
  /\ IF collections = <<>>
     THEN /\ pc' = "done"
          /\ result' = summary
          /\ UNCHANGED <<error, collections, collection_id, short_name, version,
                         granule_ids, acc>>
     ELSE \E item \in {Head(collections)} :
          \E decoded \in {decode_collection_id(item.key)} :
              IF ~decoded.ok
              THEN /\ Raised(decoded.val)
                   /\ UNCHANGED <<result, collections, collection_id, short_name,
                                  version, granule_ids, acc>>
              ELSE /\ collections' = Tail(collections)
                   /\ collection_id' = item.key
                   /\ short_name' = decoded.val.short_name
                   /\ version' = decoded.val.version
                   /\ granule_ids' = item.value.granule_ids
                   /\ acc' = EmptyMapping
                   /\ pc' = "process_collection"
                   /\ UNCHANGED <<result, error>>
  /\ UNCHANGED <<eventVars, envVars, data_bucket_name, summary, key, calls,
                 returned, runVars>>
  /\ UNCHANGED <<fnVars, genVars, pipelineVars>>

\* An accumulator step that forgets the granule ids the status already has.
group_by_status_overwrite(a, status, granule_id) ==
  [s \in DOMAIN a \cup {status} |-> IF s = status THEN <<granule_id>> ELSE a[s]]

\* {**acc, status: [*acc.get(status, []), granule_id]}
group_by_status(a, status, granule_id) ==
  [s \in DOMAIN a \cup {status} |->
     IF s = status
     THEN Append(IF status \in DOMAIN a THEN a[status] ELSE <<>>, granule_id)
     ELSE a[s]]

\* process_granule returns status to the reduce of process_collection, which
\* folds it into the accumulator and goes on to the next granule id.
ReturnStatus(status, seen) ==
  /\ acc' = group_by_status(acc, status, Head(granule_ids))
  /\ granule_ids' = Tail(granule_ids)
  /\ returned' = Append(returned, [granule_id |-> Head(granule_ids),
                                   collection_id |-> collection_id,
                                   status |-> status] @@ seen)
  /\ pc' = "process_collection"

\* process_collection returns the accumulator of its reduce, which
\* process_report stores under the collection id.
process_collection ==
  /\ pc = "process_collection"
  /\ granule_ids = <<>>
  /\ summary' = [c \in DOMAIN summary \cup {collection_id} |->
                   IF c = collection_id THEN acc ELSE summary[c]]
  /\ pc' = "process_report"
  /\ UNCHANGED <<eventVars, envVars, data_bucket_name, collections, collection_id,
                 short_name, version, granuleVars, result, error, calls, returned,
                 runVars>>
  /\ UNCHANGED <<fnVars, genVars, pipelineVars>>

\* process_granule, its CMR lookup: SKIPPED when the CMR has the granule,
\* otherwise the trigger object key is computed for the existence check.
granule_in_cmr ==
  /\ pc = "process_collection"
  /\ granule_ids # <<>>
  /\ LET granule_id == Head(granule_ids)
         query == [short_name |-> short_name, version |-> version,
                   granule_id |-> granule_id]
         hit == query \in cmr
     IN  /\ calls' = Append(calls, [op |-> "cmr", query |-> query])
         /\ IF hit
            THEN /\ ReturnStatus(SKIPPED, [in_cmr |-> TRUE, exists |-> FALSE,
                                           found |-> FALSE])
                 /\ UNCHANGED <<key, error>>
            ELSE \E trigger \in {notification_trigger_key(granule_id)} :
                 IF ~trigger.ok
                 THEN /\ Raised(trigger.val)
                      /\ UNCHANGED <<granuleVars, returned>>
                 ELSE /\ key' = trigger.val
                      /\ pc' = "s3_object_exists"
                      /\ UNCHANGED <<granule_ids, acc, returned, error>>
  /\ UNCHANGED <<eventVars, envVars, data_bucket_name, reportVars, result, runVars>>
  /\ UNCHANGED <<fnVars, genVars, pipelineVars>>

\* s3_client.head_object(Bucket=bucket, Key=key) raises no ClientError.
head_object(bucket, k) ==
  k \in DOMAIN s3[bucket] /\ <<bucket, k>> \notin head_errors

\* An existence check that lets through the client errors other than "not
\* found".
s3_object_exists_not_found_only ==
  /\ pc = "s3_object_exists"
  /\ calls' = Append(calls, [op |-> "head_object", bucket |-> data_bucket_name,
                             key |-> key, ok |-> head_object(data_bucket_name, key)])
  /\ IF head_object(data_bucket_name, key)
     THEN /\ pc' = "copy_object"
          /\ UNCHANGED <<granule_ids, acc, returned, error>>
     ELSE IF key \in DOMAIN s3[data_bucket_name]
     THEN /\ Raised("ClientError")
          /\ UNCHANGED <<granule_ids, acc, returned>>
     ELSE /\ ReturnStatus(MISSING, [in_cmr |-> FALSE, exists |-> FALSE, found |-> FALSE])
          /\ UNCHANGED error
  /\ UNCHANGED <<eventVars, envVars, data_bucket_name, reportVars, key, result, runVars>>
  /\ UNCHANGED <<fnVars, genVars, pipelineVars>>

\* process_granule, its existence check: MISSING when head_object raises a
\* ClientError, whatever the error.
s3_object_exists ==
  /\ pc = "s3_object_exists"
  /\ calls' = Append(calls, [op |-> "head_object", bucket |-> data_bucket_name,
                             key |-> key, ok |-> head_object(data_bucket_name, key)])
  /\ IF head_object(data_bucket_name, key)
     THEN /\ pc' = "copy_object"
          /\ UNCHANGED <<granule_ids, acc, returned>>
     ELSE ReturnStatus(MISSING, [in_cmr |-> FALSE,
                                 exists |-> key \in DOMAIN s3[data_bucket_name],
                                 found |-> FALSE])
  /\ UNCHANGED <<eventVars, envVars, data_bucket_name, reportVars, key, result,
                 error, runVars>>
  /\ UNCHANGED <<fnVars, genVars, pipelineVars>>

\* A copy written under another key than the one touched.
copy_object_to_new_key(objects, k, source, source_key) ==
  LET copy == [body |-> source[source_key].body, metadata |-> "replaced", modified |-> 1]
      new == k \o <<"~">>
  IN  [x \in DOMAIN objects \cup {new} |-> IF x = new THEN copy ELSE objects[x]]

\* A rewrite that loses the content of the object.
copy_object_truncating(objects, k, source, source_key) ==
  [x \in DOMAIN objects \cup {k} |->
     IF x = k THEN [body |-> <<>>, metadata |-> "replaced",
                    modified |-> objects[k].modified + 1]
     ELSE objects[x]]

\* A rewrite that removes the object it was to rewrite.
copy_object_moving(objects, k, source, source_key) ==
  [x \in DOMAIN objects \ {k} |-> objects[x]]

\* s3_client.copy_object(Bucket, Key, CopySource, MetadataDirective="REPLACE")
\* on a source that exists: the bucket with the copy written.  The copy has
\* the content of the source, the metadata of the request (none) and a new
\* modification time.
copy_object(objects, k, source, source_key) ==
  LET copy == [body |-> source[source_key].body,
               metadata |-> "replaced",
               modified |-> (IF k \in DOMAIN objects THEN objects[k].modified ELSE 0) + 1]
  IN  [x \in DOMAIN objects \cup {k} |-> IF x = k THEN copy ELSE objects[x]]

\* process_granule, its touch of the trigger object: TRIGGERED, or the
\* ClientError of copy_object when the object is no longer there.
touch ==
  /\ pc = "copy_object"
  /\ LET there == key \in DOMAIN s3[data_bucket_name]
     IN  /\ calls' = Append(calls, [op |-> "copy_object", bucket |-> data_bucket_name,
                                    key |-> key, ok |-> there])
         /\ IF there
            THEN /\ s3' = [s3 EXCEPT ![data_bucket_name] =
                             copy_object(@, key, s3[data_bucket_name], key)]
                 /\ ReturnStatus(TRIGGERED, [in_cmr |-> FALSE, exists |-> TRUE,
                                             found |-> TRUE])
                 /\ UNCHANGED error
            ELSE /\ Raised("ClientError")
                 /\ UNCHANGED <<s3, granule_ids, acc, returned>>
  /\ UNCHANGED <<eventVars, head_errors, cmr, env_steps, data_bucket_name,
                 reportVars, key, result, runVars>>
  /\ UNCHANGED <<fnVars, genVars, pipelineVars>>

\* The notification is delivered again: the handler runs on the same event.
redeliver ==
  /\ pc = "done"
  /\ ~no_discrepancies(subject)
  /\ run < MaxRuns
  /\ run' = run + 1
  /\ previous' = [result |-> result, run_env |-> run_env]
  /\ run_env' = env_steps
  /\ pc' = "handler"
  /\ data_bucket_name' = None
  /\ collections' = <<>>
  /\ collection_id' = None
  /\ short_name' = None
  /\ version' = None
  /\ summary' = EmptyMapping
  /\ granule_ids' = <<>>
  /\ acc' = EmptyMapping
  /\ key' = None
  /\ result' = None
  /\ calls' = <<>>
  /\ returned' = <<>>
  /\ UNCHANGED <<eventVars, envVars, error>>
  /\ UNCHANGED <<fnVars, genVars, pipelineVars>>

\* The handler has steps left to take.
Running == pc \notin {"done", "raised"} \/ (pc = "done" /\ ENABLED redeliver)

\* Outside the handler, a trigger object is deleted.
env_delete_object ==
  /\ Running
  /\ env_steps < MaxEnvSteps
  /\ \E b \in DataBuckets : \E k \in DOMAIN s3[b] :
       s3' = [s3 EXCEPT ![b] = [x \in DOMAIN s3[b] \ {k} |-> s3[b][x]]]
  /\ env_steps' = env_steps + 1
  /\ UNCHANGED <<eventVars, head_errors, cmr, pc, data_bucket_name, reportVars,
                 granuleVars, result, error, calls, returned, runVars>>
  /\ UNCHANGED <<fnVars, genVars, pipelineVars>>

\* Outside the handler, head_object starts or stops failing for a key (the
\* permissions of the function change).
env_head_error ==
  /\ Running
  /\ env_steps < MaxEnvSteps
  /\ \E b \in DataBuckets : \E k \in DOMAIN s3[b] :
       head_errors' = IF <<b, k>> \in head_errors THEN head_errors \ {<<b, k>>}
                      ELSE head_errors \cup {<<b, k>>}
  /\ env_steps' = env_steps + 1
  /\ UNCHANGED <<eventVars, s3, cmr, pc, data_bucket_name, reportVars,
                 granuleVars, result, error, calls, returned, runVars>>
  /\ UNCHANGED <<fnVars, genVars, pipelineVars>>

Next ==
  \/ handler
  \/ process_report
  \/ process_collection
  \/ granule_in_cmr
  \/ s3_object_exists
  \/ touch
  \/ redeliver
  \/ env_delete_object
  \/ env_head_error

Spec == Init /\ [][Next]_vars

\* ------------------------------- response/__init__.py, called on its own

\* Filenames by their parts, <prefix>.<version><suffix>: versions of one number
\* and of several, of one digit and of several.
FilePrefixes == {<<"H", "L", "S", ".", "S", "3", "0", ".", "T", "1", ".", "2", "0", "2", "4", "2", "3", "7", "T", "1", "9">>, <<"H", "L", "S", "-", "V", "I", ".", "L", "3", "0", ".", "T", "2", ".", "2", "0", "2", "4", "2", "3", "8", "T", "0", "7">>}

FileVersions == {<<"v", "2">>, <<"v", "2", ".", "0">>, <<"v", "1", ".", "5", ".", "3">>, <<"v", "1", "0">>, <<"v", "2", ".", "1", "0">>}

FileSuffixes == {<<>>, <<".", "t", "i", "f">>, <<"_", "s", "t", "a", "c", ".", "j", "s", "o", "n">>, <<".", "B", "0", "1", ".", "t", "i", "f">>}

FilenameParts == [prefix : FilePrefixes, version : FileVersions, suffix : FileSuffixes]

Filename(a) == a.prefix \o <<".">> \o a.version \o a.suffix

\* Granule ids by their fields, <prefix>.<instrument>.T1.<datetime><tail>: the
\* prefixes HLS and HLS-VI and one with another hyphenated part; datetimes with
\* one "T" after 7 and after 8 characters, without "T" and with two.
KeyPrefixes == {<<"H", "L", "S">>, <<"H", "L", "S", "-", "V", "I">>, <<"H", "L", "S", "-", "X">>}

KeyInstruments == {<<"S", "3", "0">>, <<"L", "3", "0">>}

KeyDatetimes ==
  {<<"2", "0", "2", "4", "2", "3", "7", "T", "1", "9", "4", "8", "5", "9">>, <<"2", "0", "2", "4", "2", "3", "7", "T", "1", "9">>, <<"2", "0", "2", "4", "2", "3", "7", "1", "T", "1", "9">>, <<"2", "0", "2", "4", "2", "3", "7">>, <<"2", "0", "2", "4", "T", "3", "7", "T", "1", "9">>}

KeyTails == {<<>>, <<".", "v", "2", ".", "0">>}

GranuleIdParts ==
  [prefix : KeyPrefixes, instrument : KeyInstruments, datetime : KeyDatetimes,
   tail : KeyTails]

GranuleId(a) ==
  a.prefix \o <<".">> \o a.instrument \o <<".", "T", "1", ".">> \o a.datetime \o a.tail

\* Messages by their parts, <pre>Report<ws>available<ws>at<ws><bucket>/<key>.<post>:
\* nothing, a line, words or another report sentence before; nothing, a line,
\* a sentence or words after.
EARLIER_SENTENCE == <<"R", "e", "p", "o", "r", "t", " ", "a", "v", "a", "i", "l", "a", "b", "l", "e", " ", "a", "t", " ", "a", "/", "b", ".", "\n">>

MessagePres == {<<>>, <<"H", "i", ".", "\n">>, <<"S", "e", "e", " ">>, EARLIER_SENTENCE}

MessageSpaces == {<<" ">>, <<"\n">>}

MessageKeys == {<<"f">>, <<"r", "/", "f", ".", "j", "s", "o", "n">>}

MessagePosts == {<<>>, <<"\n", "B", "y", "e", ".">>, <<" ", "S", "e", "e", " ", "i", "t", ".">>, <<" ", "T", "h", "a", "n", "k", "s">>}

MessageParts ==
  [pre : MessagePres, ws : MessageSpaces, bucket : {REPORT_BUCKET}, key : MessageKeys,
   post : MessagePosts]

MessageOf(a) ==
  a.pre \o <<"R", "e", "p", "o", "r", "t">> \o a.ws \o <<"a", "v", "a", "i", "l", "a", "b", "l", "e">> \o a.ws \o <<"a", "t">> \o a.ws
        \o a.bucket \o <<"/">> \o a.key \o <<".">> \o a.post

\* The orderings of a set of filenames (a "report" mapping has each filename
\* once).
Orderings(S) == {s \in [1..Cardinality(S) -> S] : Range(s) = S}

FileLists == UNION {Orderings(S) : S \in SUBSET {FILE_A_TIF, FILE_A_STAC, FILE_B_TIF}}

\* Reports of two sub-reports, and of three where the third names the
\* collection of the first again.
GroupReports ==
  {<< <<Item(c[1], f[1])>>, <<Item(c[2], f[2])>> >> :
     c \in {<<HLSS30, HLSL30>>, <<HLSL30, HLSS30>>}, f \in FileLists \X FileLists}
  \cup
  {<< <<Item(HLSS30, f[1])>>, <<Item(HLSL30, <<FILE_C_TIF>>)>>, <<Item(HLSS30, f[2])>> >> :
     f \in FileLists \X FileLists}

\* The reports that differ from report in the order of the files within
\* collections only.
FilesReordered(report) ==
  {r \in GroupReports :
     /\ Len(r) = Len(report)
     /\ \A n \in 1..Len(r) :
          /\ Len(r[n]) = Len(report[n])
          /\ \A j \in 1..Len(r[n]) :
               /\ r[n][j].collection_id = report[n][j].collection_id
               /\ Len(r[n][j].files) = Len(report[n][j].files)
               /\ Range(r[n][j].files) = Range(report[n][j].files)}

InitFunctions ==
  /\ ResponseIdle
  /\ GenerateReportIdle
  /\ PipelineIdle
  /\ fpc = "call"
  /\ out = None
  /\ \/ fn = "granule_id_for_file" /\ arg \in FilenameParts
     \/ fn = "notification_trigger_key" /\ arg \in GranuleIdParts
     \/ fn = "extract_report_location" /\ arg \in MessageParts
     \/ fn = "group_granule_ids" /\ arg \in GroupReports

call_granule_id_for_file ==
  /\ fpc = "call"
  /\ fn = "granule_id_for_file"
  /\ out' = granule_id_for_file(Filename(arg))
  /\ fpc' = "return"
  /\ UNCHANGED <<responseVars, genVars, pipelineVars, fn, arg>>

call_notification_trigger_key ==
  /\ fpc = "call"
  /\ fn = "notification_trigger_key"
  /\ out' = notification_trigger_key(GranuleId(arg))
  /\ fpc' = "return"
  /\ UNCHANGED <<responseVars, genVars, pipelineVars, fn, arg>>

call_extract_report_location ==
  /\ fpc = "call"
  /\ fn = "extract_report_location"
  /\ out' = extract_report_location(MessageOf(arg))
  /\ fpc' = "return"
  /\ UNCHANGED <<responseVars, genVars, pipelineVars, fn, arg>>

call_group_granule_ids ==
  /\ fpc = "call"
  /\ fn = "group_granule_ids"
  /\ out' = group_granule_ids(arg)
  /\ fpc' = "return"
  /\ UNCHANGED <<responseVars, genVars, pipelineVars, fn, arg>>

NextFunctions ==
  \/ call_granule_id_for_file
  \/ call_notification_trigger_key
  \/ call_extract_report_location
  \/ call_group_granule_ids

SpecFunctions == InitFunctions /\ [][NextFunctions]_vars

\* ------------------------------------------------ generate_report/index.py

\* _wait_query_execution(self, query_id, max_attempts=50, delay_seconds=15)
max_attempts == 50

\* The states of a query execution; it goes forward only: QUEUED, RUNNING,
\* then one of SUCCEEDED, FAILED, CANCELLED.
NonTerminal == {"QUEUED", "RUNNING"}

Unsuccessful == {"CANCELLED", "FAILED"}

QueryStates == NonTerminal \cup Unsuccessful \cup {"SUCCEEDED"}

\* The states get_query_execution can return after it returned last.
StatesAfter(last) == IF last = "RUNNING" THEN QueryStates \ {"QUEUED"} ELSE QueryStates

\* StateChangeReason of an unsuccessful query.
Reasons == {"SYNTAX_ERROR: line 1", "Query cancelled by user"}

\* The rows of a query result: the header row, then the data rows.
HEADER == 0

MaxRows == 3

\* The model's PaginationConfig PageSize.
PageSize == 2

ResultRows(n) == [k \in 1..(n + 1) |-> k - 1]

\* paginator.paginate: the rows in pages of PageSize rows.
Paginate(rows) ==
  [p \in 1..((Len(rows) + PageSize - 1) \div PageSize) |->
     SubSeq(rows, (p - 1) * PageSize + 1, Min({p * PageSize, Len(rows)}))]

InitReport ==
  /\ ResponseIdle
  /\ FunctionsIdle
  /\ PipelineIdle
  /\ gpc = "execute_query"
  /\ submitted = 0
  /\ attempt = 0
  /\ polls = 0
  /\ query_state = None
  /\ reason = None
  /\ gerror = None
  /\ \E n \in 0..MaxRows : pages = Paginate(ResultRows(n))
  /\ fetched = 0
  /\ skipped_header = FALSE
  /\ csvfile = <<>>
  /\ i_row = 0
  /\ uploads = <<>>

\* athena.start_query_execution, then _wait_query_execution up to its loop
execute_query ==
  /\ gpc = "execute_query"
  /\ submitted' = submitted + 1
  /\ attempt' = 0
  /\ gpc' = "_wait_query_execution"
  /\ UNCHANGED <<polls, query_state, reason, gerror, resultVars, responseVars, fnVars, pipelineVars>>

\* A loop guard that lets the attempt numbered max_attempts through.
wait_continues_inclusive(n) == n <= max_attempts

\* while attempt < max_attempts
wait_continues(n) == n < max_attempts

\* One turn of the loop of _wait_query_execution: the status check and what
\* follows it up to the next status check.
get_query_execution ==
  /\ gpc = "_wait_query_execution"
  /\ wait_continues(attempt)
  /\ polls' = polls + 1
  /\ \E state \in StatesAfter(query_state) :
       /\ query_state' = state
       /\ IF state = "SUCCEEDED"
          THEN /\ reason' = None
               /\ gpc' = "write_results_to_s3"
               /\ UNCHANGED <<attempt, gerror>>
          ELSE IF state \in Unsuccessful
          THEN /\ reason' \in Reasons
               /\ gerror' = [type |-> "RuntimeError",
                             message |-> <<"Query is unsuccessful (", state, "). Aborting">>]
               /\ gpc' = "raised"
               /\ UNCHANGED attempt
          ELSE /\ reason' = None
               /\ attempt' = attempt + 1
               /\ IF wait_continues(attempt + 1)
                  THEN UNCHANGED <<gpc, gerror>>
                  ELSE /\ gerror' = [type |-> "TimeoutError",
                                     message |-> <<"Timed out executing query_id=", "query_id">>]
                       /\ gpc' = "raised"
  /\ UNCHANGED <<submitted, resultVars, responseVars, fnVars, pipelineVars>>

\* A fetch that takes the first row of every page for a header.
FetchRows_header_per_page(rows, skipped) ==
  [yielded |-> IF rows = <<>> THEN <<>> ELSE Tail(rows), skipped_header |-> TRUE]

\* _fetch_results over the rows of one page: the rows it yields, and
\* skipped_header after them.
RECURSIVE FetchRows(_, _)
FetchRows(rows, skipped) ==
  IF rows = <<>> THEN [yielded |-> <<>>, skipped_header |-> skipped]
  ELSE IF ~skipped THEN FetchRows(Tail(rows), TRUE)
  ELSE LET rest == FetchRows(Tail(rows), TRUE)
       IN  [yielded |-> <<Head(rows)>> \o rest.yielded, skipped_header |-> TRUE]

\* An upload of a report without rows too.
has_rows_or_none(i) == i >= 0

\* if i > 0
has_rows(i) == i > 0

\* A fetch of results that is made after the wait has failed too.
get_query_results_after_failure ==
  /\ gpc \in {"write_results_to_s3", "raised"}
  /\ fetched < Len(pages)
  /\ fetched' = fetched + 1
  /\ \E page \in {FetchRows(pages[fetched + 1], skipped_header)} :
       /\ skipped_header' = page.skipped_header
       /\ csvfile' = csvfile \o page.yielded
       /\ i_row' = IF csvfile' = <<>> THEN 0 ELSE Len(csvfile') - 1
       /\ IF fetched + 1 < Len(pages)
          THEN UNCHANGED <<gpc, uploads>>
          ELSE /\ gpc' = "done"
               /\ uploads' = IF has_rows(i_row') THEN Append(uploads, csvfile')
                             ELSE uploads
  /\ UNCHANGED <<submitted, attempt, polls, query_state, reason, gerror, pages,
                 responseVars, fnVars, pipelineVars>>

\* write_results_to_s3 for one page of get_query_results: the rows of the page
\* are written to the CSV file; after the last page the file is closed and, if
\* i > 0, uploaded.
get_query_results ==
  /\ gpc = "write_results_to_s3"
  /\ fetched < Len(pages)
  /\ fetched' = fetched + 1
  /\ \E page \in {FetchRows(pages[fetched + 1], skipped_header)} :
     \E i \in {IF csvfile \o page.yielded = <<>> THEN 0
               ELSE Len(csvfile \o page.yielded) - 1} :
       /\ skipped_header' = page.skipped_header
       /\ csvfile' = csvfile \o page.yielded
       /\ i_row' = i
       /\ IF fetched + 1 < Len(pages)
          THEN UNCHANGED <<gpc, uploads>>
          ELSE /\ gpc' = "done"
               /\ uploads' = IF has_rows(i) THEN Append(uploads, csvfile \o page.yielded)
                             ELSE uploads
  /\ UNCHANGED <<submitted, attempt, polls, query_state, reason, gerror, pages, responseVars, fnVars, pipelineVars>>

NextReport ==
  \/ execute_query
  \/ get_query_execution
  \/ get_query_results

SpecReport == InitReport /\ [][NextReport]_vars

\* A run of generate_report goes on until it returns or raises.
SpecReportFair == SpecReport /\ WF_vars(NextReport)

\* ------------- generate_report/index.py (handler and query), request/index.py

\* Times are counted in half days: the midnight and the noon of a day of the
\* year 2025.
HalfDaysPerDay == 2

\* f"{date:%Y-%m-%d}": the day of a time, its time of day dropped.
DayOf(time) == time \div HalfDaysPerDay

\* TIMESTAMP 'YYYY-MM-DD': the midnight with which the day starts.
Timestamp(day) == day * HalfDaysPerDay

\* f"{date:%Y%j}": the year and the day of the year in three digits.
YearDay(time) ==
  LET digits == <<"0", "1", "2", "3", "4", "5", "6", "7", "8", "9">>
  IN  <<"2", "0", "2", "5">> \o <<digits[(DayOf(time) \div 100) + 1], digits[((DayOf(time) \div 10) % 10) + 1],
                    digits[(DayOf(time) % 10) + 1]>>

StartsWith(s, prefix) == Slice(s, 1, Len(prefix)) = prefix

EndsWith(s, suffix) ==
  Len(s) >= Len(suffix) /\ SubSeq(s, Len(s) - Len(suffix) + 1, Len(s)) = suffix

\* The prefixes an event gives, or the default of the handler.
DEFAULT_PRODUCT_PREFIXES == <<<<"S", "3", "0">>, <<"L", "3", "0">>, <<"S", "3", "0", "_", "V", "I">>, <<"L", "3", "0", "_", "V", "I">>>>

ProductPrefixes == {DEFAULT_PRODUCT_PREFIXES, <<<<"S", "3", "0">>, <<"L", "3", "0">>>>}

\* A filter that takes every key that ends with json.
key_is_selected_any_json(k, product_prefixes) ==
  \E n \in 1..Len(product_prefixes) :
    LET head == product_prefixes[n] \o <<"/", "d", "a", "t", "a", "/">>
        rest == SubSeq(k, Len(head) + 1, Len(k))
    IN  /\ StartsWith(k, head)
        /\ \/ EndsWith(rest, <<"t", "i", "f">>)
           \/ EndsWith(rest, <<"j", "p", "g">>)
           \/ EndsWith(rest, <<"x", "m", "l">>)
           \/ EndsWith(rest, <<"j", "s", "o", "n">>)

\* REGEXP_LIKE(key, '^(p1|p2|...)/data/.*(tif|jpg|xml|stac.json)$'): the key
\* starts with a prefix and "/data/", and what follows ends with tif, jpg, xml
\* or with stac, any one character, json.
key_is_selected(k, product_prefixes) ==
  \E n \in 1..Len(product_prefixes) :
    LET head == product_prefixes[n] \o <<"/", "d", "a", "t", "a", "/">>
        rest == SubSeq(k, Len(head) + 1, Len(k))
    IN  /\ StartsWith(k, head)
        /\ \/ EndsWith(rest, <<"t", "i", "f">>)
           \/ EndsWith(rest, <<"j", "p", "g">>)
           \/ EndsWith(rest, <<"x", "m", "l">>)
           \/ /\ Len(rest) >= 9
              /\ EndsWith(rest, <<"j", "s", "o", "n">>)
              /\ SubSeq(rest, Len(rest) - 8, Len(rest) - 5) = <<"s", "t", "a", "c">>
              /\ rest[Len(rest) - 4] # NL

\* regexp_extract(key, '[^/]+$'): the key after its last "/".
filename_of(k) ==
  SubSeq(k, Max({i \in 1..Len(k) : k[i] = "/"} \cup {0}) + 1, Len(k))

\* The characters of the class [aA-zZ0-9]: a, the range from A to z, Z and
\* the digits.
NameClass == {ASCII[n] : n \in Ord("A")..Ord("z")} \cup Digit

\* The last index of the run of class characters that index i of s is in.
RECURSIVE NameRunEnd(_, _)
NameRunEnd(s, i) ==
  IF i >= Len(s) \/ s[i + 1] \notin NameClass THEN i ELSE NameRunEnd(s, i + 1)

\* The first index from i on at which the pattern ([aA-zZ0-9]+)\.([aA-zZ0-9]+)
\* matches s: the start of a run of class characters that a "." and a class
\* character follow; 0 when there is none.
RECURSIVE NameMatch(_, _)
NameMatch(s, i) ==
  IF i > Len(s) THEN 0
  ELSE IF s[i] \notin NameClass THEN NameMatch(s, i + 1)
  ELSE \* the run that starts at i ends at e
       LET e == NameRunEnd(s, i)
       IN  IF e + 2 <= Len(s) /\ s[e + 1] = "." /\ s[e + 2] \in NameClass THEN i
           ELSE NameMatch(s, e + 1)

\* REGEXP_REPLACE(filename, '([aA-zZ0-9]+)\.([aA-zZ0-9]+).*', '$1$2'): from the
\* first match on, the run before the "." and the run after it are kept and
\* the rest is dropped.
short_name_of(filename) ==
  LET i == NameMatch(filename, 1)
  IN  IF i = 0 THEN filename
      ELSE LET e == NameRunEnd(filename, i)
           IN  SubSeq(filename, 1, e) \o SubSeq(filename, e + 2, NameRunEnd(filename, e + 2))

\* REGEXP_EXTRACT(filename, 'v([0-9]\.[0-9])', 1): the digit, "." and digit
\* after the first "v" that has them, NULL when there is none.
version_of(filename) ==
  LET at == {i \in 1..(Len(filename) - 3) :
               /\ filename[i] = "v"
               /\ filename[i + 1] \in Digit
               /\ filename[i + 2] = "."
               /\ filename[i + 3] \in Digit}
  IN  IF at = {} THEN None ELSE SubSeq(filename, Min(at) + 1, Min(at) + 3)

\* The first day of the reports: 2025-07-01, the 182nd day of the year.
DAY == 182

\* report_start_date: the event's "report_start_date" (a midnight), or the
\* time of the invocation less two days (any time of the day).
StartTimes == {Timestamp(DAY), Timestamp(DAY) + 1, Timestamp(DAY + 1)}

GRANULE_S30 == <<"H", "L", "S", ".", "S", "3", "0", ".", "T", "1", ".", "2", "0", "2", "5", "1", "8", "2", "T", "0", "0", ".", "v", "2", ".", "0">>

GRANULE_L30 == <<"H", "L", "S", ".", "L", "3", "0", ".", "T", "2", ".", "2", "0", "2", "5", "1", "8", "2", "T", "1", "2", ".", "v", "2", ".", "0">>

GRANULE_L30_VI == <<"H", "L", "S", "-", "V", "I", ".", "L", "3", "0", ".", "T", "2", ".", "2", "0", "2", "5", "1", "8", "2", "T", "1", "2", ".", "v", "2", ".", "0">>

InventoryKey(prefix, granule_id, extension) ==
  prefix \o <<"/", "d", "a", "t", "a", "/", "2", "0", "2", "5", "1", "8", "2", "/">> \o granule_id \o <<"/">> \o granule_id \o extension

InventoryRecord(k, size, last_modified_date, partition) ==
  [key |-> k, size |-> size, last_modified_date |-> last_modified_date, dt |-> partition]

\* The rows the inventory table can have: a file modified at the midnight that
\* starts DAY; the STAC file and the trigger file of its granule; a file
\* modified at the midnight that ends DAY; a file of a vegetation index
\* product; a key that ends with stac, another character than "." and json; a
\* file that only an earlier partition lists; a file modified after the end of
\* DAY; a key that has a product prefix but not at its start.
InventoryRecords ==
  { InventoryRecord(InventoryKey(<<"S", "3", "0">>, GRANULE_S30, <<".", "B", "0", "1", ".", "t", "i", "f">>), 10, Timestamp(DAY), 2),
    InventoryRecord(InventoryKey(<<"S", "3", "0">>, GRANULE_S30, <<"_", "s", "t", "a", "c", ".", "j", "s", "o", "n">>), 11, Timestamp(DAY) + 1, 2),
    InventoryRecord(InventoryKey(<<"S", "3", "0">>, GRANULE_S30, <<".", "j", "s", "o", "n">>), 12, Timestamp(DAY) + 1, 2),
    InventoryRecord(InventoryKey(<<"L", "3", "0">>, GRANULE_L30, <<".", "j", "p", "g">>), 13, Timestamp(DAY + 1), 2),
    InventoryRecord(InventoryKey(<<"L", "3", "0", "_", "V", "I">>, GRANULE_L30_VI, <<".", "c", "m", "r", ".", "x", "m", "l">>), 14,
                    Timestamp(DAY) + 1, 2),
    InventoryRecord(<<"S", "3", "0", "/", "d", "a", "t", "a", "/", "2", "0", "2", "5", "1", "8", "2", "/", "n", "o", "t", "e", "s", "_", "s", "t", "a", "c", "X", "j", "s", "o", "n">>, 15, Timestamp(DAY) + 1, 2),
    InventoryRecord(InventoryKey(<<"S", "3", "0">>, GRANULE_S30, <<".", "B", "0", "2", ".", "t", "i", "f">>), 16, Timestamp(DAY) + 1, 1),
    InventoryRecord(InventoryKey(<<"L", "3", "0">>, GRANULE_L30, <<".", "B", "0", "1", ".", "t", "i", "f">>), 17, Timestamp(DAY + 1) + 1, 2),
    InventoryRecord(<<"t", "m", "p", "/", "S", "3", "0", "/", "d", "a", "t", "a", "/", "x", ".", "t", "i", "f">>, 18, Timestamp(DAY) + 1, 2) }

MaxRecords == 2

MaxReportRuns == 2

MaxPuts == 1

\* WHERE dt = (SELECT max(dt) FROM table)
LatestPartition(table) ==
  {r \in table : r.dt = Max({x.dt : x \in table})}

\* last_modified_date BETWEEN TIMESTAMP '{start_date:%Y-%m-%d}'
\*                        AND TIMESTAMP '{end_date:%Y-%m-%d}'
date_is_selected(r, start_date, end_date) ==
  /\ Timestamp(DayOf(start_date)) <= r.last_modified_date
  /\ r.last_modified_date <= Timestamp(DayOf(end_date))

\* The rows of the inventory table that the query selects.
SelectedRecords(table, start_date, end_date, product_prefixes) ==
  {r \in LatestPartition(table) :
     /\ date_is_selected(r, start_date, end_date)
     /\ key_is_selected(r.key, product_prefixes)}

\* A row of the query result, as _parse_row gives it: the size an integer,
\* the modification time formatted to its day and hour.
ReportRow(r) ==
  [short_name |-> short_name_of(filename_of(r.key)),
   version |-> version_of(filename_of(r.key)),
   filename |-> filename_of(r.key),
   size |-> r.size,
   last_modified |-> [day |-> DayOf(r.last_modified_date),
                      hour |-> (r.last_modified_date % HalfDaysPerDay) * 12],
   checksum |-> <<"N", "A">>]

\* os.environ["REPORT_OUTPUT_PREFIX"] and os.environ["HLS_PRODUCT_VERSION"] as
\* the stack sets them, the reports bucket being named "inv".
INVENTORY_REPORTS_BUCKET == <<"i", "n", "v">>

REPORT_OUTPUT_PREFIX == <<"s", "3", ":", "/", "/">> \o INVENTORY_REPORTS_BUCKET \o <<"/", "r", "e", "c", "o", "n", "c", "i", "l", "i", "a", "t", "i", "o", "n", "_", "r", "e", "p", "o", "r", "t", "s">>

HLS_PRODUCT_VERSION == <<"2", ".", "0">>

\* report_output_location of handler
report_output_location(report_start_date) ==
  REPORT_OUTPUT_PREFIX \o <<"/">> \o YearDay(report_start_date) \o <<"/">>
    \o <<"H", "L", "S", "_", "r", "e", "c", "o", "n", "c", "i", "l", "e", "_">> \o YearDay(report_start_date) \o <<"_">> \o HLS_PRODUCT_VERSION
    \o <<".", "c", "s", "v">>

\* destination.replace("s3://", "").split("/", 1) of write_results_to_s3, for
\* a destination that starts with "s3://" and has it nowhere else.
Destination(destination) ==
  LET parts == SplitOnce(SubSeq(destination, Len(<<"s", "3", ":", "/", "/">>) + 1, Len(destination)), <<"/">>)
  IN  [bucket |-> parts[1], key |-> parts[2]]

\* s3.NotificationKeyFilter(suffix=".rpt") of the notification of the request
\* handler.
notification_key_filter(k) == EndsWith(k, <<".", "r", "p", "t">>)

\* The object-created event S3 sends for an object.
S3Event(bucket, k) ==
  [Records |-> <<[s3 |-> [bucket |-> [name |-> bucket], object |-> [key |-> k]]]>>]

\* The key of an inventory report that another party puts into the bucket.
PUT_KEY == <<"i", "n", "v", "e", "n", "t", "o", "r", "y", ".", "r", "p", "t">>

InitPipeline ==
  /\ ResponseIdle
  /\ FunctionsIdle
  /\ GenerateReportIdle
  /\ inventory \in {table \in SUBSET InventoryRecords : Cardinality(table) <= MaxRecords}
  /\ runs = <<>>
  /\ reports = EmptyMapping
  /\ events = <<>>
  /\ published = <<>>
  /\ requests = <<>>
  /\ puts = 0

\* s3.upload_file / put_object: the object is written, and S3 sends its
\* object-created event to the request handler when the key passes the filter.
PutObject(bucket, k, body) ==
  /\ reports' = [x \in DOMAIN reports \cup {k} |-> IF x = k THEN body ELSE reports[x]]
  /\ events' = IF bucket = INVENTORY_REPORTS_BUCKET /\ notification_key_filter(k)
               THEN Append(events, S3Event(bucket, k))
               ELSE events

\* handler of generate_report/index.py for a query that succeeds: the dates and
\* the location of the report, the query (which has no ORDER BY: the engine
\* returns the selected rows in any order) and write_results_to_s3.
generate_report_handler ==
  /\ Len(runs) < MaxReportRuns
  /\ \E report_start_date \in StartTimes \ {runs[n].report_start_date : n \in 1..Len(runs)} :
     \E product_prefixes \in ProductPrefixes :
     \E selected \in Orderings(SelectedRecords(inventory, report_start_date,
                                               report_start_date + HalfDaysPerDay,
                                               product_prefixes)) :
     \E destination \in {Destination(report_output_location(report_start_date))} :
     \E rows \in {[k \in 1..Len(selected) |-> ReportRow(selected[k])]} :
       LET i == IF rows = <<>> THEN 0 ELSE Len(rows) - 1
       IN  /\ runs' = Append(runs, [report_start_date |-> report_start_date,
                                    product_prefixes |-> product_prefixes,
                                    selected |-> selected,
                                    destination |-> destination,
                                    uploaded |-> has_rows(i)])
           /\ IF has_rows(i)
              THEN PutObject(destination.bucket, destination.key, rows)
              ELSE UNCHANGED <<reports, events>>
  /\ UNCHANGED <<inventory, published, requests, puts, responseVars, fnVars, genVars>>

\* Another party puts an inventory report into the reports bucket.
put_inventory_report ==
  /\ puts < MaxPuts
  /\ puts' = puts + 1
  /\ PutObject(INVENTORY_REPORTS_BUCKET, PUT_KEY, <<>>)
  /\ UNCHANGED <<inventory, runs, published, requests, responseVars, fnVars, genVars>>

\* A URI without its scheme.
report_uri_without_scheme(bucket, k) == bucket \o <<"/">> \o k

\* f"s3://{bucket}/{key}"
report_uri(bucket, k) == <<"s", "3", ":", "/", "/">> \o bucket \o <<"/">> \o k

\* json.dumps(message) for message = {"report": {"uri": uri}}
json_dumps(msg) ==
  LET json_str(s) == <<"\"">> \o s \o <<"\"">>
  IN
  <<"{">> \o json_str(<<"r", "e", "p", "o", "r", "t">>) \o <<":", " ">> \o <<"{">> \o json_str(<<"u", "r", "i">>) \o <<":", " ">>
          \o json_str(msg.report.uri) \o <<"}", "}">>

\* handler of request/index.py on the event S3 delivers.
request_handler ==
  /\ events # <<>>
  /\ LET s3_record == Head(events).Records[1].s3
         msg == [report |-> [uri |-> report_uri(s3_record.bucket.name,
                                                    s3_record.object.key)]]
     IN  /\ published' = Append(published, [TopicArn |-> "LPDAAC_REQUEST_TOPIC_ARN",
                                            Message |-> json_dumps(msg)])
         /\ requests' = Append(requests, [event |-> Head(events), returned |-> msg])
  /\ events' = Tail(events)
  /\ UNCHANGED <<inventory, runs, reports, puts, responseVars, fnVars, genVars>>

NextPipeline ==
  \/ generate_report_handler
  \/ put_inventory_report
  \/ request_handler

SpecPipeline == InitPipeline /\ [][NextPipeline]_vars

\* ------------------------------------------------------------------ claims

\* C1: for every granule process_granule returns exactly one of SKIPPED,
\* TRIGGERED and MISSING: SKIPPED if and only if the catalog has the granule;
\* otherwise TRIGGERED if and only if its trigger object key exists in the data
\* bucket, and MISSING if and only if the key does not exist.  (The handler
\* raises only outside process_granule: no granule is left without outcome.)
C1_EveryGranuleGetsItsOutcome ==
  /\ \A i \in 1..Len(returned) :
       LET r == returned[i]
       IN  /\ r.status \in Status
           /\ r.status = SKIPPED <=> r.in_cmr
           /\ ~r.in_cmr => /\ r.status = TRIGGERED <=> r.exists
                           /\ r.status = MISSING <=> ~r.exists
  /\ pc = "raised" => granule_ids = <<>>

\* C2: when the Subject contains "Ok" the handler returns the empty mapping and
\* does no processing, whatever the Message: it raises nothing (the Message is
\* not parsed), makes no request (no report read, no catalog lookup, no
\* existence check, no touch) and leaves every object as it was written.
C2_OkSubjectSkipsAllProcessing ==
  Contains(<<"O", "k">>, subject) =>
    /\ pc \in {"handler", "done"}
    /\ pc = "done" => result = EmptyMapping
    /\ calls = <<>>
    /\ returned = <<>>
    /\ data_bucket_name = None
    /\ collections = <<>>
    /\ \A b \in DataBuckets : \A k \in DOMAIN s3[b] : s3[b][k].modified = 0

\* C2 happens: the handler returned on an "Ok" subject whose Message has no
\* report location.
C2_Witness ==
  /\ Contains(<<"O", "k">>, subject)
  /\ message = MESSAGE_TEST
  /\ pc = "done"

\* C3: in the mapping process_report returns, every granule id that
\* group_granule_ids derived for a collection is in exactly one status list of
\* the collection, exactly once, and the status lists of the collection hold
\* nothing but these granule ids.
C3_OneOutcomePerGranuleId ==
  (pc = "done" /\ ~Contains(<<"O", "k">>, subject)) =>
    \E groups \in {group_granule_ids(stored_report).val} :
      /\ DOMAIN result = {groups[i].key : i \in 1..Len(groups)}
      /\ \A i \in 1..Len(groups) :
           LET lists == result[groups[i].key]
               ids == Range(groups[i].value.granule_ids)
               places == UNION {{<<s, n>> : n \in 1..Len(lists[s])} : s \in DOMAIN lists}
           IN  /\ \A g \in ids :
                    Cardinality({sn \in places : lists[sn[1]][sn[2]] = g}) = 1
               /\ {lists[sn[1]][sn[2]] : sn \in places} = ids

\* C3 happens: process_report returned a mapping in which a collection has two
\* granule ids under one status.
C3_Witness ==
  /\ pc = "done"
  /\ ~Contains(<<"O", "k">>, subject)
  /\ \E c \in DOMAIN result : \E s \in DOMAIN result[c] : Len(result[c][s]) = 2

\* C4: no step of the handler creates or deletes an object of a data bucket;
\* every touch (copy_object) follows a successful existence check (head_object)
\* of the same key in the same bucket, in the same run; and a granule returned
\* MISSING has had nothing written.
C4_NoObjectCreatedOrDeleted ==
  [][/\ env_steps' = env_steps =>
          \A b \in DataBuckets : DOMAIN s3'[b] = DOMAIN s3[b]
     /\ \A i \in 1..Len(calls') :
          calls'[i].op = "copy_object" =>
            /\ i > 1
            /\ calls'[i - 1] = [op |-> "head_object", bucket |-> calls'[i].bucket,
                                key |-> calls'[i].key, ok |-> TRUE]
     /\ (/\ Len(returned') = Len(returned) + 1
         /\ returned'[Len(returned')].status = MISSING) => s3' = s3]_vars

\* C4 happens: in one run a granule was TRIGGERED and another was MISSING.
C4_Witness ==
  /\ \E i \in 1..Len(returned) : returned[i].status = TRIGGERED
  /\ \E i \in 1..Len(returned) : returned[i].status = MISSING

\* C5: a touch leaves the content of the trigger object as it was, replaces its
\* metadata and gives it a later modification time, and changes no other
\* object; this on every touch, the second of the same object included.
C5_TouchLeavesContentUnchanged ==
  [][(pc = "copy_object" /\ pc' = "process_collection") =>
       /\ \A b \in DataBuckets : DOMAIN s3'[b] = DOMAIN s3[b]
       /\ \A b \in DataBuckets : \A k \in DOMAIN s3[b] :
            IF b = data_bucket_name /\ k = key
            THEN /\ s3'[b][k].body = s3[b][k].body
                 /\ s3'[b][k].metadata = "replaced"
                 /\ s3'[b][k].modified > s3[b][k].modified
            ELSE s3'[b][k] = s3[b][k]]_vars

\* C5 happens: a trigger object has been touched twice, and has its content.
C5_Witness ==
  \E b \in DataBuckets : \E k \in DOMAIN s3[b] :
    /\ s3[b][k].modified = 2
    /\ s3[b][k].body = NewObject(b, k).body

\* C6: a second run on the same report, with the same catalog answers and no
\* outside change to the data buckets since the first run started, returns the
\* mapping the first run returned.
C6_ReplayReturnsTheSameMapping ==
  (pc = "done" /\ run > 1 /\ env_steps = previous.run_env) =>
    result = previous.result

\* C6 happens: the second run returned, nothing changed from outside, and a
\* granule was TRIGGERED and another MISSING.
C6_Witness ==
  /\ pc = "done"
  /\ run = 2
  /\ env_steps = 0
  /\ \E c \in DOMAIN result : {TRIGGERED, MISSING} \subseteq DOMAIN result[c]

\* C7: a touch that fails does not abort the run: after a failed copy_object
\* the handler has not raised.
C7_TouchFailureDoesNotAbort ==
  (\E i \in 1..Len(calls) : calls[i].op = "copy_object" /\ ~calls[i].ok) =>
    pc # "raised"

\* C8: a granule id from which no trigger object key can be derived does not
\* abort the run: the handler has not raised on the granule id it looked up
\* last.
C8_MalformedGranuleIdDoesNotAbort ==
  pc = "raised" =>
    ~(/\ calls # <<>>
      /\ calls[Len(calls)].op = "cmr"
      /\ ~notification_trigger_key(calls[Len(calls)].query.granule_id).ok)

\* C9 (as amended): when the Subject does not contain "Ok", a Message without
\* the report location sentence, or a report with a filename without a version
\* token, makes the handler raise with no catalog lookup, no existence check
\* and no touch made.
C9_MalformedInputIsFatalBeforeAnyLookup ==
  [][(/\ pc = "handler"
      /\ pc' # "handler"
      /\ ~Contains(<<"O", "k">>, subject)
      /\ \/ ~extract_report_location(message).ok
         \/ \E i \in 1..Len(stored_report) : \E j \in 1..Len(stored_report[i]) :
              \E f \in 1..Len(stored_report[i][j].files) :
                GRANULE_ID_PATTERN(stored_report[i][j].files[f]) = 0)
     => /\ pc' = "raised"
        /\ \A i \in 1..Len(calls') : calls'[i].op = "get_object"
        /\ returned' = <<>>
        /\ s3' = s3]_vars

\* C9 happens: the handler raised on a report whose second collection has a
\* filename without a version token, having read the report and no more.
C9_Witness ==
  /\ pc = "raised"
  /\ ~Contains(<<"O", "k">>, subject)
  /\ extract_report_location(message).ok
  /\ Len(calls) = 1
  /\ \E i \in 1..Len(stored_report) : FILE_NO_VERSION \in Range(stored_report[i][1].files)

\* C9 (as stated): a Message without the report location sentence, or a report
\* with a filename without a version token, makes the handler raise: it does
\* not return.
C9_MalformedInputAlwaysRaises ==
  pc = "done" =>
    ~(\/ ~extract_report_location(message).ok
      \/ \E i \in 1..Len(stored_report) : \E j \in 1..Len(stored_report[i]) :
           \E f \in 1..Len(stored_report[i][j].files) :
             GRANULE_ID_PATTERN(stored_report[i][j].files[f]) = 0)

\* C10: within one run every existence check and every touch is made on one
\* bucket: the historical bucket when the key of the report (the key of the
\* run's get_object) contains "historical", the forward bucket otherwise.
C10_OneDataBucketPerReport ==
  \A i \in 1..Len(calls) :
    calls[i].op \in {"head_object", "copy_object"} =>
      calls[i].bucket = IF Contains(<<"h", "i", "s", "t", "o", "r", "i", "c", "a", "l">>, calls[1].key)
                        THEN HLS_HISTORICAL_BUCKET
                        ELSE HLS_FORWARD_BUCKET

\* C10 happens: a run on a historical report made requests for two trigger
\* objects.
C10_Witness ==
  \E i, j \in 1..Len(calls) :
    /\ calls[i].op = "head_object"
    /\ calls[j].op = "head_object"
    /\ calls[i].key # calls[j].key
    /\ calls[i].bucket = HLS_HISTORICAL_BUCKET

\* C11: a collection sub-report with zero files (whose collection id no later
\* sub-report names again) is in the output: group_granule_ids maps its
\* collection id to the file count 0 and the empty granule id sequence, and the
\* mapping process_report returns has the collection id with an empty mapping.
C11_EmptyCollectionIsReported ==
  (pc = "done" /\ ~Contains(<<"O", "k">>, subject)) =>
    \E items \in {ReportItems(stored_report)} :
    \E groups \in {group_granule_ids(stored_report).val} :
      \A n \in 1..Len(items) :
        (/\ items[n].files = <<>>
         /\ \A m \in (n + 1)..Len(items) :
              items[m].collection_id # items[n].collection_id) =>
          /\ \E g \in 1..Len(groups) :
               groups[g] = [key |-> items[n].collection_id,
                            value |-> [n_files |-> 0, granule_ids |-> <<>>]]
          /\ items[n].collection_id \in DOMAIN result
          /\ DOMAIN result[items[n].collection_id] = {}

\* C11 happens: process_report returned a mapping with a collection without
\* outcomes and a collection with outcomes.
C11_Witness ==
  /\ pc = "done"
  /\ ~Contains(<<"O", "k">>, subject)
  /\ [collection_id |-> HLSL30, files |-> <<>>] \in Range(ReportItems(stored_report))
  /\ \E c \in DOMAIN result : DOMAIN result[c] = {}
  /\ \E c \in DOMAIN result : DOMAIN result[c] # {}

\* C16: the short name and version decode_collection_id returns, joined with
\* "___", are the collection id, the short name ending where the first "___"
\* of the collection id starts; and every catalog lookup process_report causes
\* is made with that short name and version, for a granule id of that
\* collection.
C16_CollectionIdRoundTrips ==
  /\ pc \in {"process_collection", "s3_object_exists", "copy_object"} =>
       /\ short_name \o <<"_", "_", "_">> \o version = collection_id
       /\ Find(<<"_", "_", "_">>, collection_id) = Len(short_name) + 1
  /\ \A n \in 1..Len(calls) :
       calls[n].op = "cmr" =>
         LET q == calls[n].query
             c == q.short_name \o <<"_", "_", "_">> \o q.version
         IN  /\ c \in DOMAIN summary \cup {collection_id}
             /\ Find(<<"_", "_", "_">>, c) = Len(q.short_name) + 1
             /\ \E g \in Range(group_granule_ids(stored_report).val) :
                  g.key = c /\ q.granule_id \in Range(g.value.granule_ids)

\* C16 happens: a catalog lookup was made for a collection whose short name and
\* version both have an underscore.
C16_Witness ==
  \E n \in 1..Len(calls) :
    /\ calls[n].op = "cmr"
    /\ "_" \in Range(calls[n].query.short_name)
    /\ "_" \in Range(calls[n].query.version)

\* C12: for every collection sub-report (the last one of its collection id,
\* whose entry it is that the mapping keeps) group_granule_ids returns the
\* number of filenames of the sub-report as the file count and, as granule ids,
\* exactly the granule ids derived from those filenames, in strictly ascending
\* lexicographic order, hence each once.
C12_CountAndSortedUniqueGranuleIds ==
  (fn = "group_granule_ids" /\ fpc = "return") =>
    /\ out.ok
    /\ \E items \in {ReportItems(arg)} :
         \A n \in 1..Len(items) :
           (\A m \in (n + 1)..Len(items) :
              items[m].collection_id # items[n].collection_id) =>
             \E g \in 1..Len(out.val) :
               LET ids == out.val[g].value.granule_ids
               IN  /\ out.val[g].key = items[n].collection_id
                   /\ out.val[g].value.n_files = Len(items[n].files)
                   /\ Range(ids) = {granule_id_for_file(f).val : f \in Range(items[n].files)}
                   /\ \A k \in 1..(Len(ids) - 1) : StrLess(ids[k], ids[k + 1])

\* C12 happens: group_granule_ids returned, for a collection of three files of
\* two granules given with the greater granule id first, the count 3 and the
\* two granule ids.
C12_Witness ==
  /\ fn = "group_granule_ids"
  /\ fpc = "return"
  /\ arg[1][1].files = <<FILE_B_TIF, FILE_A_STAC, FILE_A_TIF>>
  /\ out.val[1].value = [n_files |-> 3, granule_ids |-> <<GRANULE_A, GRANULE_B>>]

\* C13: group_granule_ids returns the same mapping for every report that
\* differs from the given one in the order of the files within collections
\* only, and the collection ids of the mapping are in the order in which the
\* report sequence first names them, also when a collection id is in more than
\* one sub-report.
C13_FileOrderInvariantCollectionOrderKept ==
  (fn = "group_granule_ids" /\ fpc = "return") =>
    /\ \A r \in FilesReordered(arg) : group_granule_ids(r) = out
    /\ \E items \in {ReportItems(arg)} :
       \E first \in {[c \in {items[n].collection_id : n \in 1..Len(items)} |->
                        Min({n \in 1..Len(items) : items[n].collection_id = c})]} :
         /\ {out.val[g].key : g \in 1..Len(out.val)} = DOMAIN first
         /\ \A g \in 1..Len(out.val) : \A h \in (g + 1)..Len(out.val) :
              first[out.val[g].key] < first[out.val[h].key]

\* C13 happens: group_granule_ids returned for a report whose third sub-report
\* names the collection of the first again, with the files in another order
\* than a report it was also called for.
C13_Witness ==
  /\ fn = "group_granule_ids"
  /\ fpc = "return"
  /\ Len(arg) = 3
  /\ arg[3][1].files = <<FILE_B_TIF, FILE_A_TIF>>
  /\ Cardinality(FilesReordered(arg)) > 1
  /\ out.val[1].key = HLSS30
  /\ out.val[2].key = HLSL30

\* C14: for a filename <prefix>.v<N>(.<N>)*<suffix>, granule_id_for_file
\* returns the prefix through the version token, whatever the suffix.
C14_GranuleIdIsPrefixThroughVersion ==
  (fn = "granule_id_for_file" /\ fpc = "return") =>
    out = Return(arg.prefix \o <<".">> \o arg.version)

\* C15, as the code has it: for a granule id of at least 4 dot-separated
\* fields whose fourth field has exactly one "T", the key is
\* {instrument}[_VI]/data/{date}/{granule_id}/{granule_id}.json, the instrument
\* being the second field, "_VI" being there exactly when the first field has
\* a "-", and the date being the fourth field up to its "T"; with no "T" or
\* more than one in the fourth field the function raises ValueError; the same
\* granule id always gives the same outcome.
C15_TriggerKeyOfGranuleId ==
  (fn = "notification_trigger_key" /\ fpc = "return") =>
    \E g \in {GranuleId(arg)} :
      /\ IF Cardinality({i \in 1..Len(arg.datetime) : arg.datetime[i] = "T"}) = 1
         THEN out = Return(arg.instrument
                           \o (IF "-" \in Range(arg.prefix) THEN <<"_", "V", "I">> ELSE <<>>)
                           \o <<"/", "d", "a", "t", "a", "/">>
                           \o SubSeq(arg.datetime, 1, Find(<<"T">>, arg.datetime) - 1)
                           \o <<"/">> \o g \o <<"/">> \o g \o <<".", "j", "s", "o", "n">>)
         ELSE out = Raise("ValueError")
      /\ \A a \in GranuleIdParts :
           GranuleId(a) = g => notification_trigger_key(GranuleId(a)) = out

\* C15 happens: notification_trigger_key returned a key for a granule id whose
\* first field has a hyphen but not the -VI marker and whose fourth field has 8
\* characters before its "T".
C15_Witness ==
  /\ fn = "notification_trigger_key"
  /\ fpc = "return"
  /\ arg.prefix = <<"H", "L", "S", "-", "X">>
  /\ arg.datetime = <<"2", "0", "2", "4", "2", "3", "7", "1", "T", "1", "9">>
  /\ out.ok
  /\ Contains(<<"_", "V", "I", "/", "d", "a", "t", "a", "/", "2", "0", "2", "4", "2", "3", "7", "1", "/">>, out.val)

\* C15, as stated: for every granule id of at least 4 dot-separated fields the
\* key is {instrument}[_VI]/data/{date}/{granule_id}/{granule_id}.json, "_VI"
\* being there exactly when the first field carries the -VI marker and the
\* date being the first 7 characters of the fourth field.
C15_DateIsFirstSevenCharacters ==
  (fn = "notification_trigger_key" /\ fpc = "return") =>
    \E g \in {GranuleId(arg)} :
      out = Return(arg.instrument
                   \o (IF Contains(<<"-", "V", "I">>, arg.prefix) THEN <<"_", "V", "I">> ELSE <<>>)
                   \o <<"/", "d", "a", "t", "a", "/">> \o Slice(arg.datetime, 1, 7)
                   \o <<"/">> \o g \o <<"/">> \o g \o <<".", "j", "s", "o", "n">>)

\* C17, as the code has it: for a message with the sentence "Report available
\* at <bucket>/<key>." extract_report_location returns the first match split
\* on the first "/": the bucket is the text before the first "/" and the key
\* is everything between that "/" and the last period of the line the
\* location is on, whatever text precedes the sentence or is on other lines.
C17_LocationUpToLastPeriodOfLine ==
  (fn = "extract_report_location" /\ fpc = "return") =>
    LET line == SubSeq(arg.post, 1, LineEnd(arg.post, 1))
        periods == {i \in 1..Len(line) : line[i] = "."}
        rest == IF periods = {} THEN <<>>
                ELSE <<".">> \o SubSeq(line, 1, Max(periods) - 1)
    IN  out = Return(IF arg.pre = EARLIER_SENTENCE
                     THEN [bucket |-> <<"a">>, key |-> <<"b">>]
                     ELSE [bucket |-> arg.bucket, key |-> arg.key \o rest])

\* C17 happens: extract_report_location returned for a message in which words
\* precede the sentence and a second sentence follows it on its line.
C17_Witness ==
  /\ fn = "extract_report_location"
  /\ fpc = "return"
  /\ arg.pre = <<"S", "e", "e", " ">>
  /\ arg.post = <<" ", "S", "e", "e", " ", "i", "t", ".">>
  /\ out = Return([bucket |-> REPORT_BUCKET, key |-> <<"r", "/", "f", ".", "j", "s", "o", "n", ".", " ", "S", "e", "e", " ", "i", "t">>])

\* C17, as stated: the key is everything between the first "/" and the period
\* that ends the sentence, whatever text precedes or follows the sentence.
C17_KeyEndsWithTheSentence ==
  (fn = "extract_report_location" /\ fpc = "return") =>
    out = Return(IF arg.pre = EARLIER_SENTENCE
                 THEN [bucket |-> <<"a">>, key |-> <<"b">>]
                 ELSE [bucket |-> arg.bucket, key |-> arg.key])

\* C18: the poll loop makes at most max_attempts status checks; when a status
\* check returns SUCCEEDED the loop returns and the results are streamed to
\* their end; when all max_attempts status checks returned a non-terminal
\* state the run has failed with a TimeoutError, a TimeoutError is raised in
\* that case only, and after a failure no status check is made.
C18_AtMostMaxAttemptsStatusChecks ==
  /\ [](polls <= max_attempts)
  /\ [](query_state = "SUCCEEDED" =>
          /\ gpc \in {"write_results_to_s3", "done"}
          /\ gerror = None)
  /\ (query_state = "SUCCEEDED" ~> (gpc = "done" /\ fetched = Len(pages)))
  /\ []((polls = max_attempts /\ query_state \in NonTerminal) =>
          (gpc = "raised" /\ gerror.type = "TimeoutError"))
  /\ []((gpc = "raised" /\ gerror.type = "TimeoutError") =>
          (polls = max_attempts /\ query_state \in NonTerminal))
  /\ [][gpc = "raised" => polls' = polls]_vars

\* C18 happens: the last of max_attempts status checks returned RUNNING and the
\* run failed with a TimeoutError.
C18_Witness ==
  /\ gpc = "raised"
  /\ polls = max_attempts
  /\ attempt = max_attempts
  /\ query_state = "RUNNING"
  /\ gerror.type = "TimeoutError"

\* C19: when a status check returned FAILED or CANCELLED the run has failed
\* with a query execution error that carries the failure reason the query
\* engine gave, and the query was submitted once.
C19_FailureCarriesTheReason ==
  (gpc = "raised" /\ query_state \in Unsuccessful) =>
    /\ gerror.type = "RuntimeError"
    /\ reason \in Range(gerror.message)
    /\ submitted = 1

\* C20: when the query result holds no data row, nothing is uploaded to the
\* report destination.
C20_NoDataRowNoUpload ==
  (\A p \in 1..Len(pages) : \A k \in 1..Len(pages[p]) : pages[p][k] = HEADER) =>
    uploads = <<>>

\* C20 happens: write_results_to_s3 returned for a result of the header row
\* alone, having fetched its page and written no row.
C20_Witness ==
  /\ gpc = "done"
  /\ pages = <<<<HEADER>>>>
  /\ fetched = 1
  /\ skipped_header
  /\ csvfile = <<>>
  /\ uploads = <<>>

\* C27: whenever the query result holds n >= 1 data rows, write_results_to_s3
\* has uploaded the report exactly once when it returns, and the uploaded
\* report holds exactly those n rows, in their order; for n = 1 as for a
\* larger n.
C27_DataRowsAreUploadedOnce ==
  (gpc = "done" /\ Len(ReportItems(pages)) >= 2) =>
    uploads = <<Tail(ReportItems(pages))>>

\* C28: streaming the query result discards exactly one row, the first row of
\* the first page (the header): after any number of pages fetched the rows
\* written are the rows of those pages without that one row, in page order and
\* in row order within a page, the first row of a later page among them; and
\* neither the written report nor an uploaded one has the header row.
C28_OnlyTheHeaderRowIsDiscarded ==
  /\ skipped_header = (fetched >= 1)
  /\ fetched = 0 => csvfile = <<>>
  /\ fetched >= 1 => csvfile = Tail(ReportItems(SubSeq(pages, 1, fetched)))
  /\ \A p \in 2..fetched : pages[p][1] \in Range(csvfile)
  /\ HEADER \notin Range(csvfile)
  /\ \A u \in 1..Len(uploads) : HEADER \notin Range(uploads[u])

\* C28 happens: the rows of two pages were written, the first row of the
\* second page among them, the header row of the first page left out.
C28_Witness ==
  /\ gpc = "done"
  /\ Len(pages) >= 2
  /\ fetched = Len(pages)
  /\ pages[1][1] = HEADER
  /\ pages[2][1] \in Range(csvfile)
  /\ Len(csvfile) = Len(ReportItems(pages)) - 1
  /\ uploads = <<csvfile>>

\* C29: a result page is fetched, a row written and a report uploaded only
\* after a status check of the run returned SUCCEEDED; in a run that has
\* failed (FAILED, CANCELLED or timeout) no page was fetched, no row written
\* and nothing uploaded, and nothing is afterwards.
C29_ResultsOnlyAfterSucceeded ==
  /\ [](\/ query_state = "SUCCEEDED"
        \/ (fetched = 0 /\ csvfile = <<>> /\ uploads = <<>>))
  /\ [](gpc = "raised" =>
          /\ query_state \in NonTerminal \cup Unsuccessful
          /\ fetched = 0
          /\ csvfile = <<>>
          /\ uploads = <<>>)
  /\ [][gpc = "raised" => UNCHANGED <<fetched, csvfile, uploads>>]_vars

\* C29 happens: a run whose result has data rows failed after several status
\* checks, with no page fetched and nothing uploaded.
C29_Witness ==
  /\ gpc = "raised"
  /\ query_state = "FAILED"
  /\ polls >= 3
  /\ Len(ReportItems(pages)) >= 3
  /\ fetched = 0
  /\ uploads = <<>>

C21_OneFilePerShortName ==
  /\ \A k \in DOMAIN reports \ {PUT_KEY} :
       /\ Cardinality({reports[k][n].short_name : n \in 1..Len(reports[k])}) = 1
       /\ Contains(reports[k][1].short_name, k)
       /\ Contains(HLS_PRODUCT_VERSION, k)
       /\ \E n \in 1..Len(runs) :
            runs[n].destination.key = k /\ Contains(YearDay(runs[n].report_start_date), k)
  /\ Len(runs) = 1 =>
       Cardinality(DOMAIN reports \ {PUT_KEY})
         = Cardinality({short_name_of(filename_of(r.key)) : r \in Range(runs[1].selected)})

\* C22: the rows of every written report are in ascending order of filename
\* and, for equal filenames, of modification time, whatever the inventory
\* table holds and in whatever order the query engine returns its rows; the
\* rows are written in the order in which the engine returned them.
C22_RowsAreSortedByFilename ==
  /\ \A k \in DOMAIN reports :
       \A a \in 1..Len(reports[k]) : \A b \in (a + 1)..Len(reports[k]) :
         \/ StrLess(reports[k][a].filename, reports[k][b].filename)
         \/ /\ reports[k][a].filename = reports[k][b].filename
            /\ \/ reports[k][a].last_modified.day < reports[k][b].last_modified.day
               \/ /\ reports[k][a].last_modified.day = reports[k][b].last_modified.day
                  /\ reports[k][a].last_modified.hour <= reports[k][b].last_modified.hour
  /\ \A n \in 1..Len(runs) :
       (runs[n].uploaded /\ \A m \in (n + 1)..Len(runs) :
                              runs[m].destination # runs[n].destination) =>
         reports[runs[n].destination.key]
           = [k \in 1..Len(runs[n].selected) |-> ReportRow(runs[n].selected[k])]

\* C23: the report for start date D covers the half-open range [D, D + 1 day):
\* every record the query selects was modified at a time t with
\* D <= t < D + 1 day, and no record is selected for the reports of two
\* consecutive start dates.
C23_DateRangeIsHalfOpen ==
  /\ \A n \in 1..Len(runs) : \A r \in Range(runs[n].selected) :
       /\ Timestamp(DayOf(runs[n].report_start_date)) <= r.last_modified_date
       /\ r.last_modified_date < Timestamp(DayOf(runs[n].report_start_date) + 1)
  /\ \A n \in 1..Len(runs) : \A m \in 1..Len(runs) :
       DayOf(runs[m].report_start_date) = DayOf(runs[n].report_start_date) + 1 =>
         Range(runs[n].selected) \cap Range(runs[m].selected) = {}

\* C24, as the code has it: no selected record is the trigger file of the
\* granule its filename names; a record is selected only if its key starts
\* with one of the selected product prefixes and "/data/" and ends with tif,
\* jpg, xml or with stac, any one character and json; and the _stac.json file
\* of a granule under a selected prefix, in the latest partition and in the
\* date range, is selected.
C24_TriggerFilesAreNotSelected ==
  \A n \in 1..Len(runs) :
    /\ \A r \in Range(runs[n].selected) :
         /\ \E g \in {granule_id_for_file(filename_of(r.key))} :
              g.ok => notification_trigger_key(g.val) # Return(r.key)
         /\ \E p \in Range(runs[n].product_prefixes) : StartsWith(r.key, p \o <<"/", "d", "a", "t", "a", "/">>)
         /\ \/ \E ext \in {<<"t", "i", "f">>, <<"j", "p", "g">>, <<"x", "m", "l">>} : EndsWith(r.key, ext)
            \/ \E c \in Range(ASCII) : EndsWith(r.key, <<"s", "t", "a", "c">> \o <<c>> \o <<"j", "s", "o", "n">>)
    /\ \A r \in LatestPartition(inventory) :
         (/\ EndsWith(r.key, <<"_", "s", "t", "a", "c", ".", "j", "s", "o", "n">>)
          /\ \E p \in Range(runs[n].product_prefixes) : StartsWith(r.key, p \o <<"/", "d", "a", "t", "a", "/">>)
          /\ Timestamp(DayOf(runs[n].report_start_date)) <= r.last_modified_date
          /\ r.last_modified_date <= Timestamp(DayOf(runs[n].report_start_date) + 1)) =>
           r \in Range(runs[n].selected)

\* C24 happens: the inventory holds the trigger file and the _stac.json file of
\* a granule, and the query of a run selected the _stac.json file alone.
C24_Witness ==
  \E n \in 1..Len(runs) :
    /\ {r.key : r \in inventory}
         = {InventoryKey(<<"S", "3", "0">>, GRANULE_S30, <<".", "j", "s", "o", "n">>),
            InventoryKey(<<"S", "3", "0">>, GRANULE_S30, <<"_", "s", "t", "a", "c", ".", "j", "s", "o", "n">>)}
    /\ notification_trigger_key(GRANULE_S30) = Return(InventoryKey(<<"S", "3", "0">>, GRANULE_S30, <<".", "j", "s", "o", "n">>))
    /\ Len(runs[n].selected) = 1
    /\ runs[n].selected[1].key = InventoryKey(<<"S", "3", "0">>, GRANULE_S30, <<"_", "s", "t", "a", "c", ".", "j", "s", "o", "n">>)

\* C24, as stated: a record is selected only if its key lies under one of the
\* selected product prefixes and ends in tif, jpg, xml or the STAC metadata
\* suffix stac.json, and no selected record is a trigger file.
C24_OnlyRecognizedExtensions ==
  \A n \in 1..Len(runs) : \A r \in Range(runs[n].selected) :
    /\ \E g \in {granule_id_for_file(filename_of(r.key))} :
         g.ok => notification_trigger_key(g.val) # Return(r.key)
    /\ \E p \in Range(runs[n].product_prefixes) : StartsWith(r.key, p \o <<"/", "d", "a", "t", "a", "/">>)
    /\ \E ext \in {<<"t", "i", "f">>, <<"j", "p", "g">>, <<"x", "m", "l">>, <<"s", "t", "a", "c", ".", "j", "s", "o", "n">>} : EndsWith(r.key, ext)

\* C25: for every object-created event the request handler has published one
\* message to the request topic, whose body is {"report": {"uri":
\* "s3://<bucket>/<key>"}} with the bucket name and the object key of the
\* event, and has returned that message.
C25_OneRequestMessagePerEvent ==
  /\ Len(published) = Len(requests)
  /\ \A n \in 1..Len(requests) :
       \E uri \in {<<"s", "3", ":", "/", "/">> \o requests[n].event.Records[1].s3.bucket.name \o <<"/">>
                     \o requests[n].event.Records[1].s3.object.key} :
         /\ requests[n].returned = [report |-> [uri |-> uri]]
         /\ published[n].TopicArn = "LPDAAC_REQUEST_TOPIC_ARN"
         /\ published[n].Message
              = <<"{", "\"">> \o <<"r", "e", "p", "o", "r", "t">> \o <<"\"", ":", " ", "{", "\"">> \o <<"u", "r", "i">>
                  \o <<"\"", ":", " ", "\"">> \o uri \o <<"\"", "}", "}">>

\* C25 happens: the request handler was invoked for the object inventory.rpt
\* of the reports bucket and has published its message.
C25_Witness ==
  /\ Len(requests) = 1
  /\ events = <<>>
  /\ requests[1].event = S3Event(INVENTORY_REPORTS_BUCKET, PUT_KEY)
  /\ requests[1].returned.report.uri = <<"s", "3", ":", "/", "/", "i", "n", "v", "/", "i", "n", "v", "e", "n", "t", "o", "r", "y", ".", "r", "p", "t">>
  /\ Len(published) = 1

\* C26: every report file the report generator has uploaded to the inventory
\* reports bucket has triggered the request handler: for every upload of a run
\* one event for the file is on its way to the handler or one notification
\* with the s3:// location of the file is published.
C26_EveryUploadedReportIsRequested ==
  \A n \in 1..Len(runs) :
    runs[n].uploaded =>
      Cardinality({e \in 1..Len(events) :
                     events[e] = S3Event(runs[n].destination.bucket, runs[n].destination.key)})
      + Cardinality({m \in 1..Len(requests) :
                       requests[m].returned.report.uri
                         = <<"s", "3", ":", "/", "/">> \o runs[n].destination.bucket \o <<"/">>
                             \o runs[n].destination.key})
      = Cardinality({m \in 1..Len(runs) :
                       runs[m].uploaded /\ runs[m].destination = runs[n].destination})

====
